---- MODULE Spec2Model ----
(***************************************************************************)
(* Model of the engineering-metrics-dashboard aggregation pipeline:        *)
(* period generation (backfill.py), the upsert store (database/            *)
(* repository.py, database/session.py) and the single-period and backfill  *)
(* orchestrators (tasks.py, backfill.py).                                  *)
(***************************************************************************)
EXTENDS Integers, Sequences, FiniteSets, TLC

(***************************************************************************)
(* Bounds of the model.                                                    *)
(***************************************************************************)
\* first calendar day (ordinal, day 0 = 2023-01-01) an input date may take
FirstDay == 358
\* number of days after FirstDay an input date may take
MaxSpan == 70
\* number of repository calls in one behaviour of the store
MaxCalls == 3
\* number of times the clock read by datetime.utcnow() advances
MaxClock == 1
\* longest list of pull requests, and of incidents, given to the calculator
MaxItems == 3
\* number of times the calculator is called with the same arguments
MaxRepeat == 2
\* number of periods the orchestrators process in one behaviour, over all runs
MaxAttempts == 3

(***************************************************************************)
(* datetime / timedelta of the Python standard library, as far as          *)
(* backfill.py and tasks.py use them.  A datetime is a record              *)
(* [year, month, day, sec] with sec the second of the day; microseconds    *)
(* are always replaced by 0 in the code and are not represented.           *)
(***************************************************************************)
\* the model counts days from 2023-01-01 (a Sunday) and covers 2023..2025
SecondsPerDay == 24 * 60 * 60

Date(y, m, d, s) == [year |-> y, month |-> m, day |-> d, sec |-> s]

IsLeap(y) == (y % 4 = 0) /\ ((y % 100 # 0) \/ (y % 400 = 0))

DaysInYear(y) == IF IsLeap(y) THEN 366 ELSE 365

DaysInMonth(y, m) ==
    IF m = 2 THEN (IF IsLeap(y) THEN 29 ELSE 28)
    ELSE IF m \in {4, 6, 9, 11} THEN 30 ELSE 31

RECURSIVE DaysBeforeYear(_)
DaysBeforeYear(y) ==
    IF y <= 2023 THEN 0 ELSE DaysBeforeYear(y - 1) + DaysInYear(y - 1)

RECURSIVE DaysBeforeMonth(_, _)
DaysBeforeMonth(y, m) ==
    IF m <= 1 THEN 0 ELSE DaysBeforeMonth(y, m - 1) + DaysInMonth(y, m - 1)

\* date.toordinal(), counted from 2023-01-01 = 0
toordinal(dt) == DaysBeforeYear(dt.year) + DaysBeforeMonth(dt.year, dt.month) + (dt.day - 1)

\* date.fromordinal()
fromordinal(n) ==
    LET y == CHOOSE yy \in 2023..2025 :
                 DaysBeforeYear(yy) <= n /\ n < DaysBeforeYear(yy) + DaysInYear(yy)
        r == n - DaysBeforeYear(y)
        m == CHOOSE mm \in 1..12 :
                 DaysBeforeMonth(y, mm) <= r /\ r < DaysBeforeMonth(y, mm) + DaysInMonth(y, mm)
    IN  [year |-> y, month |-> m, day |-> r - DaysBeforeMonth(y, m) + 1]

\* the instant of a datetime in seconds since 2023-01-01T00:00:00
timestamp(dt) == toordinal(dt) * SecondsPerDay + dt.sec

fromtimestamp(t) ==
    LET d == fromordinal(t \div SecondsPerDay)
    IN  [year |-> d.year, month |-> d.month, day |-> d.day, sec |-> t % SecondsPerDay]

\* datetime + timedelta(seconds = s); datetime - timedelta is a negative s
plus_timedelta(dt, s) == fromtimestamp(timestamp(dt) + s)

\* timedelta(days, hours, minutes, seconds) in seconds
timedelta(days, hours, minutes, seconds) ==
    days * SecondsPerDay + hours * 3600 + minutes * 60 + seconds

\* datetime.weekday(): Monday = 0 .. Sunday = 6 (2023-01-01 is a Sunday)
weekday(dt) == (toordinal(dt) + 6) % 7

\* datetime comparison
dt_lt(a, b) == timestamp(a) < timestamp(b)
dt_gt(a, b) == timestamp(a) > timestamp(b)

(***************************************************************************)
(* MetricsPeriod (models.py)                                               *)
(***************************************************************************)
MetricsPeriod(type, start_date, end_date) ==
    [type |-> type, start_date |-> start_date, end_date |-> end_date]

(***************************************************************************)
(* generate_periods (backfill.py)                                          *)
(***************************************************************************)
\* line 30: start_date.replace(hour=0, minute=0, second=0, microsecond=0, tzinfo=utc)
NormalizeStart(start_date) == [start_date EXCEPT !.sec = 0]

\* line 31: end_date.replace(hour=23, minute=59, second=59, microsecond=0, tzinfo=utc)
NormalizeEnd(end_date) == [end_date EXCEPT !.sec = 23 * 3600 + 59 * 60 + 59]

\* the alignment left out: the first period starts on the day of start_date
AlignToMonday_none(current) == current

\* lines 35-36: align to Monday
AlignToMonday(current) ==
    LET days_since_monday == weekday(current)
    IN  plus_timedelta(current, 0 - timedelta(days_since_monday, 0, 0, 0))

\* line 39
WeeklyPeriodEnd(current) == plus_timedelta(current, timedelta(6, 23, 59, 59))

\* lines 38-47: the weekly loop
RECURSIVE WeeklyLoop(_, _, _)
WeeklyLoop(current, end, periods) ==
    IF ~dt_lt(current, end) THEN periods
    ELSE LET period_end == WeeklyPeriodEnd(current)
         IN  IF dt_gt(period_end, end) THEN periods
             ELSE WeeklyLoop(plus_timedelta(current, timedelta(7, 0, 0, 0)), end,
                             Append(periods, MetricsPeriod("weekly", current, period_end)))

\* lines 54-57: first instant of the following month
NextMonth(current) ==
    IF current.month = 12
    THEN [current EXCEPT !.year = current.year + 1, !.month = 1]
    ELSE [current EXCEPT !.month = current.month + 1]

\* the monthly loop without the test of lines 60-61: a month that reaches
\* beyond end is still emitted
RECURSIVE MonthlyLoop_nobreak(_, _, _)
MonthlyLoop_nobreak(current, end, periods) ==
    IF ~dt_lt(current, end) THEN periods
    ELSE LET next_month == NextMonth(current)
             period_end == plus_timedelta(next_month, 0 - timedelta(0, 0, 0, 1))
         IN  MonthlyLoop_nobreak(next_month, end,
                              Append(periods, MetricsPeriod("monthly", current, period_end)))

\* lines 52-68: the monthly loop
RECURSIVE MonthlyLoop(_, _, _)
MonthlyLoop(current, end, periods) ==
    IF ~dt_lt(current, end) THEN periods
    ELSE LET next_month == NextMonth(current)
             period_end == plus_timedelta(next_month, 0 - timedelta(0, 0, 0, 1))
         IN  IF dt_gt(period_end, end) THEN periods
             ELSE MonthlyLoop(next_month, end,
                              Append(periods, MetricsPeriod("monthly", current, period_end)))

\* the monthly branch without the alignment of line 50: months are counted
\* from the day of start_date
generate_periods_unaligned(start_date, end_date, period_type) ==
    LET current == NormalizeStart(start_date)
        end == NormalizeEnd(end_date)
    IN  IF period_type = "weekly"
        THEN WeeklyLoop(AlignToMonday(current), end, <<>>)
        ELSE MonthlyLoop(current, end, <<>>)

\* lines 23-70
generate_periods(start_date, end_date, period_type) ==
    LET current == NormalizeStart(start_date)
        end == NormalizeEnd(end_date)
    IN  IF period_type = "weekly"
        THEN WeeklyLoop(AlignToMonday(current), end, <<>>)
        ELSE MonthlyLoop([current EXCEPT !.day = 1], end, <<>>)

(***************************************************************************)
(* JSON values handed to the repository (model_dump(mode="json")): a       *)
(* timestamp is an ISO string, written either with a trailing Z or with    *)
(* the +00:00 offset; an optional number is None or a float; a dict is a     *)
(* function from its keys.                                                 *)
(***************************************************************************)
None == [kind |-> "None"]
Float(v) == [kind |-> "float", v |-> v]
IsoString(t, z) == [kind |-> "str", t |-> t, z |-> z]
Datetime(t) == [kind |-> "datetime", t |-> t]

\* repository.py _parse_datetime
_parse_datetime(value) ==
    IF value.kind = "None" THEN None
    ELSE IF value.kind = "datetime" THEN value
    ELSE Datetime(value.t)

\* dict.get(key, default); dict.get(key) is dict.get(key, None)
dict_get(d, key, default) == IF key \in DOMAIN d THEN d[key] ELSE default

(***************************************************************************)
(* The tables of database/models.py: each table is the sequence of its     *)
(* rows in insertion order; the primary key id of a new row is the next    *)
(* position.                                                               *)
(***************************************************************************)
EmptyTables ==
    [deployments |-> <<>>, pull_requests |-> <<>>, incidents |-> <<>>, snapshots |-> <<>>]

\* the rows of a table that carry the unique external identifier key
RowsWithKey(table, col, key) == {i \in 1..Len(table) : table[i][col] = key}

(***************************************************************************)
(* DataRepository.upsert_deployments                                       *)
(***************************************************************************)
\* lines 44-52: the values of the INSERT
DeploymentValues(dep, now) ==
    [github_deployment_id |-> dep.id,
     sha |-> dep.sha,
     ref |-> dep.ref,
     environment |-> dep.environment,
     status |-> dep.status,
     created_at |-> _parse_datetime(dep.created_at),
     fetched_at |-> now]

NewRow(table, values) == [id |-> Len(table) + 1] @@ values

\* INSERT without the ON CONFLICT clause and without the unique index
UpsertDeploymentRow_always_insert(table, dep, now) ==
    Append(table, NewRow(table, DeploymentValues(dep, now)))

\* ON CONFLICT DO NOTHING
UpsertDeploymentRow_do_nothing(table, dep, now) ==
    LET values == DeploymentValues(dep, now)
        hit == RowsWithKey(table, "github_deployment_id", values.github_deployment_id)
    IN  IF hit = {} THEN Append(table, NewRow(table, values)) ELSE table

\* ON CONFLICT DO UPDATE of every column
UpsertDeploymentRow_update_all(table, dep, now) ==
    LET values == DeploymentValues(dep, now)
        hit == RowsWithKey(table, "github_deployment_id", values.github_deployment_id)
    IN  IF hit = {} THEN Append(table, NewRow(table, values))
        ELSE [i \in 1..Len(table) |->
                 IF i \in hit THEN [id |-> table[i].id] @@ values ELSE table[i]]

\* lines 44-60: INSERT ... ON CONFLICT (github_deployment_id) DO UPDATE
UpsertDeploymentRow(table, dep, now) ==
    LET values == DeploymentValues(dep, now)
        hit == RowsWithKey(table, "github_deployment_id", values.github_deployment_id)
    IN  IF hit = {} THEN Append(table, NewRow(table, values))
        ELSE [i \in 1..Len(table) |->
                 IF i \in hit
                 THEN [table[i] EXCEPT !.status = values.status,
                                       !.fetched_at = values.fetched_at]
                 ELSE table[i]]

\* lines 40-62: the table after the call; the count returned is
\* upsert_count(deployments)
RECURSIVE upsert_deployments(_, _, _)
upsert_deployments(table, deployments, now) ==
    IF deployments = <<>> THEN table
    ELSE upsert_deployments(UpsertDeploymentRow(table, Head(deployments), now),
                            Tail(deployments), now)

\* lines 40-41, 62 (and 69-70, 92; 99-100, 134): the number of records processed
upsert_count(records) == IF records = <<>> THEN 0 ELSE Len(records)

(***************************************************************************)
(* DataRepository.upsert_pull_requests                                     *)
(***************************************************************************)
\* lines 73-80
PullRequestValues(pr, now) ==
    [github_pr_number |-> pr.number,
     title |-> pr.title,
     created_at |-> _parse_datetime(pr.created_at),
     merged_at |-> _parse_datetime(dict_get(pr, "merged_at", None)),
     first_commit_at |-> _parse_datetime(dict_get(pr, "first_commit_at", None)),
     fetched_at |-> now]

\* lines 73-90: INSERT ... ON CONFLICT (github_pr_number) DO UPDATE
UpsertPullRequestRow(table, pr, now) ==
    LET values == PullRequestValues(pr, now)
        hit == RowsWithKey(table, "github_pr_number", values.github_pr_number)
    IN  IF hit = {} THEN Append(table, NewRow(table, values))
        ELSE [i \in 1..Len(table) |->
                 IF i \in hit
                 THEN [table[i] EXCEPT !.title = values.title,
                                       !.merged_at = values.merged_at,
                                       !.first_commit_at = values.first_commit_at,
                                       !.fetched_at = values.fetched_at]
                 ELSE table[i]]

\* lines 69-92
RECURSIVE upsert_pull_requests(_, _, _)
upsert_pull_requests(table, pull_requests, now) ==
    IF pull_requests = <<>> THEN table
    ELSE upsert_pull_requests(UpsertPullRequestRow(table, Head(pull_requests), now),
                              Tail(pull_requests), now)

(***************************************************************************)
(* DataRepository.upsert_incidents                                         *)
(***************************************************************************)
\* lines 103-116
IncidentValues(inc, now) ==
    [incident_io_id |-> inc.id,
     name |-> inc.name,
     status |-> inc.status,
     severity |-> inc.severity,
     created_at |-> _parse_datetime(inc.created_at),
     resolved_at |-> _parse_datetime(dict_get(inc, "resolved_at", None)),
     impact_started_at |-> _parse_datetime(dict_get(inc, "impact_started_at", None)),
     duration_seconds |-> dict_get(inc, "duration_seconds", None),
     time_to_resolve_hours |-> dict_get(inc, "time_to_resolve_hours", None),
     is_change_related |-> dict_get(inc, "is_change_related", TRUE),
     is_user_impacting |-> dict_get(inc, "is_user_impacting", TRUE),
     fetched_at |-> now]

\* lines 103-132: INSERT ... ON CONFLICT (incident_io_id) DO UPDATE
UpsertIncidentRow(table, inc, now) ==
    LET values == IncidentValues(inc, now)
        hit == RowsWithKey(table, "incident_io_id", values.incident_io_id)
    IN  IF hit = {} THEN Append(table, NewRow(table, values))
        ELSE [i \in 1..Len(table) |->
                 IF i \in hit
                 THEN [table[i] EXCEPT !.name = values.name,
                                       !.status = values.status,
                                       !.severity = values.severity,
                                       !.resolved_at = values.resolved_at,
                                       !.impact_started_at = values.impact_started_at,
                                       !.duration_seconds = values.duration_seconds,
                                       !.time_to_resolve_hours = values.time_to_resolve_hours,
                                       !.is_change_related = values.is_change_related,
                                       !.is_user_impacting = values.is_user_impacting,
                                       !.fetched_at = values.fetched_at]
                 ELSE table[i]]

\* lines 99-134
RECURSIVE upsert_incidents(_, _, _)
upsert_incidents(table, incidents, now) ==
    IF incidents = <<>> THEN table
    ELSE upsert_incidents(UpsertIncidentRow(table, Head(incidents), now),
                          Tail(incidents), now)

(***************************************************************************)
(* MetricsRepository.create_snapshot and the calculator's counts.  The     *)
(* snapshot row carries the period, the integer counts of the metric       *)
(* blocks and generated_at.                                                *)
(***************************************************************************)
\* a float result that is the exact quotient n / d, d > 0
Ratio(n, d) == [kind |-> "float", n |-> n, d |-> d]

\* float comparisons a >= n / d, a <= n / d, a < n / d
RatioGe(a, n, d) == a.n * d >= n * a.d
RatioLe(a, n, d) == a.n * d <= n * a.d
RatioLt(a, n, d) == a.n * d < n * a.d

RECURSIVE SeqSum(_)
SeqSum(xs) == IF xs = <<>> THEN 0 ELSE Head(xs) + SeqSum(Tail(xs))

\* sorted(): the list in ascending order
RECURSIVE sorted(_)
sorted(xs) ==
    IF xs = <<>> THEN <<>>
    ELSE LET rest == sorted(Tail(xs))
             below == SelectSeq(rest, LAMBDA x : x <= Head(xs))
             above == SelectSeq(rest, LAMBDA x : x > Head(xs))
         IN  below \o <<Head(xs)>> \o above

\* statistics.median() of a non-empty list whose values are xs[k] / unit
median(xs, unit) ==
    LET data == sorted(xs)
        n == Len(data)
    IN  IF n % 2 = 1
        THEN Ratio(data[n \div 2 + 1], unit)
        ELSE Ratio(data[n \div 2] + data[n \div 2 + 1], 2 * unit)

\* the thresholds taken as exclusive
_get_deployment_frequency_rating_exclusive(per_day) ==
    IF ~RatioLe(per_day, 1, 1) THEN "elite"
    ELSE IF ~RatioLe(per_day, 1, 7) THEN "high"
    ELSE IF ~RatioLe(per_day, 1, 30) THEN "medium"
    ELSE "low"

\* dora.py lines 57-65
_get_deployment_frequency_rating(per_day) ==
    IF RatioGe(per_day, 1, 1) THEN "elite"
    ELSE IF RatioGe(per_day, 1, 7) THEN "high"
    ELSE IF RatioGe(per_day, 1, 30) THEN "medium"
    ELSE "low"

\* dora.py lines 40-41, 125: the deployments with status success
SuccessfulDeployments(deployments) ==
    Cardinality({k \in 1..Len(deployments) : deployments[k].status = "success"})

\* every deployment counted, whatever its status
calculate_deployment_frequency_all(deployments, period) ==
    LET total == Len(deployments)
        elapsed == timestamp(period.end_date) - timestamp(period.start_date)
        days == IF elapsed \div SecondsPerDay > 1 THEN elapsed \div SecondsPerDay ELSE 1
        per_day == Ratio(total, days)
    IN  [deployments_per_day |-> per_day,
         deployments_per_week |-> Ratio(per_day.n * 7, per_day.d),
         total_deployments |-> total,
         rating |-> _get_deployment_frequency_rating(per_day)]

\* dora.py lines 36-54; timedelta.days is the whole days of the difference
calculate_deployment_frequency(deployments, period) ==
    LET total == SuccessfulDeployments(deployments)
        elapsed == timestamp(period.end_date) - timestamp(period.start_date)
        days == IF elapsed \div SecondsPerDay > 1 THEN elapsed \div SecondsPerDay ELSE 1
        per_day == Ratio(total, days)
    IN  [deployments_per_day |-> per_day,
         deployments_per_week |-> Ratio(per_day.n * 7, per_day.d),
         total_deployments |-> total,
         rating |-> _get_deployment_frequency_rating(per_day)]

\* dora.py lines 104-112
_get_lead_time_rating(median_hours) ==
    IF RatioLt(median_hours, 1, 1) THEN "elite"
    ELSE IF RatioLt(median_hours, 24, 1) THEN "high"
    ELSE IF RatioLt(median_hours, 168, 1) THEN "medium"
    ELSE "low"

\* the lead time counted from the creation of the pull request
RECURSIVE LeadSeconds_from_creation(_)
LeadSeconds_from_creation(pull_requests) ==
    IF pull_requests = <<>> THEN <<>>
    ELSE LET pr == Head(pull_requests)
         IN  IF pr.merged_at.kind = "None" THEN LeadSeconds_from_creation(Tail(pull_requests))
             ELSE <<pr.merged_at.t - pr.created_at.t>>
                      \o LeadSeconds_from_creation(Tail(pull_requests))

\* dora.py lines 72-78: the seconds from start to merge of the merged pull
\* requests, in list order; hours are these seconds / 3600
RECURSIVE LeadSeconds(_)
LeadSeconds(pull_requests) ==
    IF pull_requests = <<>> THEN <<>>
    ELSE LET pr == Head(pull_requests)
             start_time == IF pr.first_commit_at.kind # "None" THEN pr.first_commit_at
                           ELSE pr.created_at
         IN  IF pr.merged_at.kind = "None" THEN LeadSeconds(Tail(pull_requests))
             ELSE <<pr.merged_at.t - start_time.t>> \o LeadSeconds(Tail(pull_requests))

\* dora.py lines 68-101
calculate_lead_time(pull_requests) ==
    LET lead_times == LeadSeconds(pull_requests)
    IN  IF lead_times = <<>>
        THEN [average_hours |-> Ratio(0, 1), median_hours |-> Ratio(0, 1),
              p90_hours |-> Ratio(0, 1), rating |-> "low"]
        ELSE LET sorted_times == sorted(lead_times)
                 avg == Ratio(SeqSum(lead_times), 3600 * Len(lead_times))
                 med == median(lead_times, 3600)
                 p90_idx == (Len(sorted_times) * 9) \div 10
                 p90 == IF p90_idx < Len(sorted_times)
                        THEN Ratio(sorted_times[p90_idx + 1], 3600) ELSE med
             IN  [average_hours |-> avg, median_hours |-> med, p90_hours |-> p90,
                  rating |-> _get_lead_time_rating(med)]

\* the thresholds taken as exclusive
_get_change_failure_rate_rating_exclusive(percentage) ==
    IF RatioLt(percentage, 5, 1) THEN "elite"
    ELSE IF RatioLt(percentage, 10, 1) THEN "high"
    ELSE IF RatioLt(percentage, 15, 1) THEN "medium"
    ELSE "low"

\* dora.py lines 151-159
_get_change_failure_rate_rating(percentage) ==
    IF RatioLe(percentage, 5, 1) THEN "elite"
    ELSE IF RatioLe(percentage, 10, 1) THEN "high"
    ELSE IF RatioLe(percentage, 15, 1) THEN "medium"
    ELSE "low"

\* dora.py lines 115-148; incidents are the change-related ones
calculate_change_failure_rate(deployments, incidents) ==
    LET total_deployments == SuccessfulDeployments(deployments)
    IN  IF total_deployments = 0
        THEN [percentage |-> Ratio(0, 1), failed_changes |-> 0, total_deployments |-> 0,
              rating |-> "elite"]
        ELSE LET failed_changes == Len(incidents)
                 percentage == Ratio(failed_changes * 100, total_deployments)
             IN  [percentage |-> percentage, failed_changes |-> failed_changes,
                  total_deployments |-> total_deployments,
                  rating |-> _get_change_failure_rate_rating(percentage)]

\* dora.py lines 194-202
_get_mttr_rating(median_hours) ==
    IF RatioLt(median_hours, 1, 1) THEN "elite"
    ELSE IF RatioLt(median_hours, 24, 1) THEN "high"
    ELSE IF RatioLt(median_hours, 168, 1) THEN "medium"
    ELSE "low"

\* dora.py lines 170-172
RECURSIVE ResolutionTimes(_)
ResolutionTimes(incidents) ==
    IF incidents = <<>> THEN <<>>
    ELSE IF Head(incidents).time_to_resolve_hours.kind = "None"
         THEN ResolutionTimes(Tail(incidents))
         ELSE <<Head(incidents).time_to_resolve_hours.v>> \o ResolutionTimes(Tail(incidents))

\* dora.py lines 162-191
calculate_mttr(incidents) ==
    LET resolution_times == ResolutionTimes(incidents)
    IN  IF resolution_times = <<>>
        THEN [average_hours |-> Ratio(0, 1), median_hours |-> Ratio(0, 1), incidents |-> 0,
              rating |-> "elite"]
        ELSE LET avg == Ratio(SeqSum(resolution_times), Len(resolution_times))
                 med == median(resolution_times, 1)
             IN  [average_hours |-> avg, median_hours |-> med, incidents |-> Len(incidents),
                  rating |-> _get_mttr_rating(med)]

\* every incident taken as change-related
ChangeIncidents_all(incidents) == incidents

\* dora.py line 24
ChangeIncidents(incidents) == SelectSeq(incidents, LAMBDA inc : inc.is_change_related)

\* the deployment frequency taken over the time from the start of the
\* period to the instant of the call
calculate_dora_metrics_to_date(data, period, now) ==
    LET change_incidents == ChangeIncidents(data.incidents)
        to_date == [period EXCEPT !.end_date = plus_timedelta(Date(2024, 1, 17, 36000),
                                                             now * 3600)]
    IN  [deployment_frequency |-> calculate_deployment_frequency(data.deployments, to_date),
         lead_time |-> calculate_lead_time(data.pull_requests),
         change_failure_rate |->
             calculate_change_failure_rate(data.deployments, change_incidents),
         mttr |-> calculate_mttr(change_incidents),
         period |-> period,
         generated_at |-> now]

\* dora.py lines 21-33; now is the instant datetime.now() returns
calculate_dora_metrics(data, period, now) ==
    LET change_incidents == ChangeIncidents(data.incidents)
    IN  [deployment_frequency |-> calculate_deployment_frequency(data.deployments, period),
         lead_time |-> calculate_lead_time(data.pull_requests),
         change_failure_rate |->
             calculate_change_failure_rate(data.deployments, change_incidents),
         mttr |-> calculate_mttr(change_incidents),
         period |-> period,
         generated_at |-> now]

\* the deployment frequency counted twice in the mean, the MTTR not at all
get_overall_rating_weighted(metrics) ==
    LET value(r) == IF r = "elite" THEN 4 ELSE IF r = "high" THEN 3
                    ELSE IF r = "medium" THEN 2 ELSE 1
        weighted == 2 * value(metrics.deployment_frequency.rating)
                    + value(metrics.lead_time.rating)
                    + value(metrics.change_failure_rate.rating)
    IN  IF 2 * weighted >= 7 * 4 THEN "elite"
        ELSE IF 2 * weighted >= 5 * 4 THEN "high"
        ELSE IF 2 * weighted >= 3 * 4 THEN "medium"
        ELSE "low"

\* dora.py lines 205-229
get_overall_rating(metrics) ==
    LET value(r) == IF r = "elite" THEN 4 ELSE IF r = "high" THEN 3
                    ELSE IF r = "medium" THEN 2 ELSE 1
        total == value(metrics.deployment_frequency.rating) + value(metrics.lead_time.rating)
                 + value(metrics.change_failure_rate.rating) + value(metrics.mttr.rating)
    IN  IF 2 * total >= 7 * 4 THEN "elite"
        ELSE IF 2 * total >= 5 * 4 THEN "high"
        ELSE IF 2 * total >= 3 * 4 THEN "medium"
        ELSE "low"

\* repository.py lines 186-215
SnapshotValues(metrics, period, now) ==
    [period_type |-> period.type,
     period_start |-> period.start_date,
     period_end |-> period.end_date,
     df_deployments_per_day |-> metrics.deployment_frequency.deployments_per_day,
     df_deployments_per_week |-> metrics.deployment_frequency.deployments_per_week,
     df_total_deployments |-> metrics.deployment_frequency.total_deployments,
     df_rating |-> metrics.deployment_frequency.rating,
     lt_average_hours |-> metrics.lead_time.average_hours,
     lt_median_hours |-> metrics.lead_time.median_hours,
     lt_p90_hours |-> metrics.lead_time.p90_hours,
     lt_rating |-> metrics.lead_time.rating,
     cfr_percentage |-> metrics.change_failure_rate.percentage,
     cfr_failed_changes |-> metrics.change_failure_rate.failed_changes,
     cfr_total_deployments |-> metrics.change_failure_rate.total_deployments,
     cfr_rating |-> metrics.change_failure_rate.rating,
     mttr_average_hours |-> metrics.mttr.average_hours,
     mttr_median_hours |-> metrics.mttr.median_hours,
     mttr_incidents |-> metrics.mttr.incidents,
     mttr_rating |-> metrics.mttr.rating,
     overall_rating |-> get_overall_rating(metrics),
     generated_at |-> now]

\* a snapshot keyed by (period_type, period_start): a second snapshot of a
\* period replaces the first
create_snapshot_upsert(table, metrics, period, now) ==
    LET values == SnapshotValues(metrics, period, now)
        hit == {i \in 1..Len(table) : /\ table[i].period_type = values.period_type
                                      /\ table[i].period_start = values.period_start}
    IN  IF hit = {} THEN Append(table, NewRow(table, values))
        ELSE [i \in 1..Len(table) |->
                 IF i \in hit THEN [id |-> table[i].id] @@ values ELSE table[i]]

\* repository.py lines 181-219: session.add(snapshot) and flush; the id
\* returned is that of the last row
create_snapshot(table, metrics, period, now) ==
    Append(table, NewRow(table, SnapshotValues(metrics, period, now)))

(***************************************************************************)
(* The upstream sources as the clients return them for a period: the       *)
(* repositories of the organisation, one deployment and one merged pull    *)
(* request per repository, one incident.                                   *)
(***************************************************************************)
Repos == <<"r1", "r2">>

RepoIndex(repo) == CHOOSE k \in 1..Len(Repos) : Repos[k] = repo

\* clients.py get_deployments
UpstreamDeployments(repo, period) ==
    <<[id |-> toordinal(period.start_date) * 10 + RepoIndex(repo),
       sha |-> "sha-" \o repo,
       ref |-> "main",
       environment |-> "production",
       created_at |-> Datetime(timestamp(period.start_date) + 3600 * RepoIndex(repo)),
       status |-> "success"]>>

\* clients.py get_pull_requests: pull request numbers count per repository
UpstreamPullRequests(repo, period) ==
    <<[number |-> toordinal(period.start_date) \div 7,
       title |-> "change in " \o repo,
       created_at |-> Datetime(timestamp(period.start_date) + 60),
       merged_at |-> Datetime(timestamp(period.start_date) + 7200),
       first_commit_at |-> None]>>

\* clients.py get_dora_incidents
UpstreamIncidents(period) ==
    <<[id |-> "inc-" \o ToString(toordinal(period.start_date)),
       name |-> "deploy broke checkout",
       status |-> "closed",
       severity |-> "major",
       created_at |-> Datetime(timestamp(period.start_date) + 10800),
       resolved_at |-> Datetime(timestamp(period.start_date) + 18000),
       impact_started_at |-> None,
       duration_seconds |-> Float(7200),
       time_to_resolve_hours |-> Float(2),
       is_change_related |-> TRUE,
       is_user_impacting |-> TRUE]>>

\* the faults of the upstream during the fetch of one period: the callers
\* for which the repository listing fails, the repositories whose
\* deployment fetch fails, those whose pull request fetch fails, and
\* whether the incident fetch fails
FetchFaults ==
    {[get_repos |-> {}, deployments |-> {}, pull_requests |-> {}, incidents |-> FALSE],
     [get_repos |-> {}, deployments |-> {"r2"}, pull_requests |-> {"r1"}, incidents |-> TRUE],
     [get_repos |-> {"fetch_github_deployments", "backfill_period"},
      deployments |-> {}, pull_requests |-> {}, incidents |-> FALSE],
     [get_repos |-> {"fetch_github_pull_requests", "backfill_period"},
      deployments |-> {}, pull_requests |-> {}, incidents |-> FALSE],
     [get_repos |-> {}, deployments |-> {}, pull_requests |-> {}, incidents |-> TRUE]}

\* the environment variables: GITHUB_TOKEN and GITHUB_ORG set, INCIDENT_IO_API_KEY set
Envs ==
    {[github |-> TRUE, incident_io |-> TRUE],
     [github |-> TRUE, incident_io |-> FALSE],
     [github |-> FALSE, incident_io |-> TRUE]}

\* clients.py line 370
ConfigError == "GITHUB_TOKEN and GITHUB_ORG environment variables are required"
\* response.raise_for_status() of an upstream call
UpstreamError == "upstream request failed"
\* a failing session.execute / flush / commit
PersistenceError == "database operation failed"
\* a failing subtask of the pipeline
TaskError == "task failed"

\* model_dump(mode="json"): a datetime becomes an ISO string
DumpInstant(v) == IF v.kind = "datetime" THEN IsoString(v.t, TRUE) ELSE v
DumpDeployment(d) == [d EXCEPT !.created_at = DumpInstant(@)]
DumpPullRequest(pr) ==
    [pr EXCEPT !.created_at = DumpInstant(@), !.merged_at = DumpInstant(@),
               !.first_commit_at = DumpInstant(@)]
DumpIncident(inc) ==
    [inc EXCEPT !.created_at = DumpInstant(@), !.resolved_at = DumpInstant(@),
                !.impact_started_at = DumpInstant(@)]
DumpAll(records, Dump(_)) == [k \in 1..Len(records) |-> Dump(records[k])]

\* datetime.isoformat()
isoformat(dt) == IsoString(timestamp(dt), FALSE)
\* datetime.fromisoformat(s.replace("Z", "+00:00"))
fromisoformat(s) == fromtimestamp(s.t)

\* the per-repository loops: the items of the repositories whose fetch did
\* not fail, in repository order (backfill.py 88-105, tasks.py 75-84, 104-113)
RECURSIVE extend_all(_)
extend_all(lists) ==
    IF lists = <<>> THEN <<>> ELSE Head(lists) \o extend_all(Tail(lists))

FetchRepos(repos, failing, period, Fetch(_, _)) ==
    extend_all([k \in 1..Len(repos) |->
                   IF repos[k] \in failing THEN <<>> ELSE Fetch(repos[k], period)])

(***************************************************************************)
(* The clients (clients.py): what get_deployments, get_pull_requests and   *)
(* get_incidents return for the pages the upstream serves.  A feed is the  *)
(* sequence of its pages, at least one.  A fault names the pages whose     *)
(* request fails and the items whose per-item lookup fails.                *)
(***************************************************************************)
\* clients.py lines 98-105: the status of a deployment from its statuses
DeploymentStatus(statuses) ==
    IF statuses = <<>> THEN "pending"
    ELSE LET state == statuses[1].state
         IN  IF state = "success" THEN "success"
             ELSE IF state \in {"failure", "error"} THEN "failure"
             ELSE IF state \in {"in_progress", "queued"} THEN "in_progress"
             ELSE "pending"

\* the upper end of the period is not checked
DeploymentsOfPage_open(page, period, failing) ==
    LET Rest[j \in 1..(Len(page) + 1)] ==
            IF j > Len(page) THEN [items |-> <<>>, raised |-> FALSE]
            ELSE LET dep == page[j]
                     created_at == fromisoformat(dep.created_at)
                 IN  IF dt_lt(created_at, period.start_date)
                     THEN [items |-> <<>>, raised |-> FALSE]
                     ELSE IF dep.id \in failing
                     THEN [items |-> <<>>, raised |-> TRUE]
                     ELSE [Rest[j + 1] EXCEPT !.items =
                              <<[id |-> dep.id, sha |-> dep.sha, ref |-> dep.ref,
                                 environment |-> dep.environment,
                                 created_at |-> Datetime(timestamp(created_at)),
                                 status |-> DeploymentStatus(dep.statuses)]>> \o @]
    IN  Rest[1]

\* clients.py lines 80-118: the deployments of one page; the loop over the
\* page ends at the first item before the period,
\* and a failing status request leaves the function
DeploymentsOfPage(page, period, failing) ==
    LET Rest[j \in 1..(Len(page) + 1)] ==
            IF j > Len(page) THEN [items |-> <<>>, raised |-> FALSE]
            ELSE LET dep == page[j]
                     created_at == fromisoformat(dep.created_at)
                 IN  IF dt_lt(created_at, period.start_date)
                     THEN [items |-> <<>>, raised |-> FALSE]
                     ELSE IF dt_gt(created_at, period.end_date)
                     THEN Rest[j + 1]
                     ELSE IF dep.id \in failing
                     THEN [items |-> <<>>, raised |-> TRUE]
                     ELSE [Rest[j + 1] EXCEPT !.items =
                              <<[id |-> dep.id, sha |-> dep.sha, ref |-> dep.ref,
                                 environment |-> dep.environment,
                                 created_at |-> Datetime(timestamp(created_at)),
                                 status |-> DeploymentStatus(dep.statuses)]>> \o @]
    IN  Rest[1]

\* clients.py lines 74, 147, 253-255 (raise_for_status) and 125, 209,
\* 319 (return): a call whose request failed raises, any other returns the
\* items it gathered
ClientAnswer(all) ==
    IF all.raised
    THEN [status |-> "raised", error |-> UpstreamError, requested |-> all.requested]
    ELSE [status |-> "returned", value |-> all.items, requested |-> all.requested]

\* clients.py lines 66-72, 139-145, 245-251: the request of page p, made
\* before anything of the page is looked at; requested lists the pages a
\* call asked the upstream for, in order
PageRequested(p, rest) == [rest EXCEPT !.requested = <<p>> \o @]

\* the loop over the pages was left: nothing more is requested
NoMorePages(raised) == [items |-> <<>>, raised |-> raised, requested |-> <<>>]

\* clients.py lines 80-123: the deployments of a page are followed by those
\* of the next pages unless a request failed within the page
AfterDeployments(here, rest) ==
    IF here.raised THEN NoMorePages(TRUE) ELSE [rest EXCEPT !.items = here.items \o @]

\* clients.py lines 59-125
get_deployments(pages, period, fault) ==
    LET From[p \in 1..(Len(pages) + 1)] ==
            IF p > Len(pages) THEN NoMorePages(FALSE)
            ELSE IF p \in fault.pages THEN PageRequested(p, NoMorePages(TRUE))
            ELSE IF pages[p] = <<>> THEN PageRequested(p, NoMorePages(FALSE))
            ELSE PageRequested(p,
                     AfterDeployments(DeploymentsOfPage(pages[p], period, fault.items),
                                      From[p + 1]))
    IN  ClientAnswer(From[1])

\* clients.py lines 173-189: the first commit time of a pull request; a
\* failing commits request is caught
FirstCommitAt(pr, failing) ==
    IF pr.number \in failing \/ pr.commits = <<>> THEN None
    ELSE IF pr.commits[1].date = None THEN None
    ELSE Datetime(timestamp(fromisoformat(pr.commits[1].date)))

\* clients.py lines 155-199: the pull requests of one page and whether one
\* of them was merged within the period
PullRequestsOfPage(page, period, failing) ==
    LET Rest[j \in 1..(Len(page) + 1)] ==
            IF j > Len(page) THEN [items |-> <<>>, found_in_period |-> FALSE]
            ELSE LET pr == page[j]
                 IN  IF pr.merged_at = None THEN Rest[j + 1]
                     ELSE LET merged_at == fromisoformat(pr.merged_at)
                          IN  IF dt_lt(merged_at, period.start_date) THEN Rest[j + 1]
                              ELSE IF dt_gt(merged_at, period.end_date) THEN Rest[j + 1]
                              ELSE [items |->
                                       <<[number |-> pr.number, title |-> pr.title,
                                          created_at |->
                                              Datetime(timestamp(fromisoformat(pr.created_at))),
                                          merged_at |-> Datetime(timestamp(merged_at)),
                                          first_commit_at |-> FirstCommitAt(pr, failing)]>>
                                       \o Rest[j + 1].items,
                                    found_in_period |-> TRUE]
    IN  Rest[1]

\* clients.py lines 200-207: the pull requests of a page are followed by
\* those of the next pages if one of them was merged within the period
AfterPullRequests(here, rest) ==
    IF ~here.found_in_period THEN [NoMorePages(FALSE) EXCEPT !.items = here.items]
    ELSE [rest EXCEPT !.items = here.items \o @]

\* clients.py lines 127-209: the loop over the pages ends at the first page
\* without a pull request merged within the period; a failing request of
\* a page leaves the function
get_pull_requests(pages, period, fault) ==
    LET From[p \in 1..(Len(pages) + 1)] ==
            IF p > Len(pages) THEN NoMorePages(FALSE)
            ELSE IF p \in fault.pages THEN PageRequested(p, NoMorePages(TRUE))
            ELSE IF pages[p] = <<>> THEN PageRequested(p, NoMorePages(FALSE))
            ELSE PageRequested(p,
                     AfterPullRequests(PullRequestsOfPage(pages[p], period, fault.items),
                                       From[p + 1]))
    IN  ClientAnswer(From[1])

\* clients.py lines 279-286
IncidentSeverity(name) ==
    IF name \in {"critical", "sev0", "p0"} THEN "critical"
    ELSE IF name \in {"major", "sev1", "p1"} THEN "major"
    ELSE "minor"

\* clients.py lines 258-307: the incidents of one page
IncidentsOfPage(page, period) ==
    LET Rest[j \in 1..(Len(page) + 1)] ==
            IF j > Len(page) THEN <<>>
            ELSE LET inc == page[j]
                     created_at == fromisoformat(inc.created_at)
                     resolved_at == IF inc.resolved_at = None THEN None
                                    ELSE fromisoformat(inc.resolved_at)
                 IN  IF dt_lt(created_at, period.start_date)
                        \/ dt_gt(created_at, period.end_date)
                     THEN Rest[j + 1]
                     ELSE <<[id |-> inc.id, name |-> inc.name, status |-> inc.status,
                             severity |-> IncidentSeverity(inc.severity),
                             created_at |-> Datetime(timestamp(created_at)),
                             resolved_at |-> IF resolved_at = None THEN None
                                             ELSE Datetime(timestamp(resolved_at)),
                             impact_started_at |-> None,
                             duration_seconds |-> None,
                             time_to_resolve_hours |->
                                 IF resolved_at = None THEN None
                                 ELSE Ratio(timestamp(resolved_at) - timestamp(created_at),
                                            3600),
                             is_change_related |-> TRUE,
                             is_user_impacting |-> TRUE]>> \o Rest[j + 1]
    IN  Rest[1]

\* clients.py lines 227-319: the pages are followed by their cursor; a
\* failing request of a page leaves the function
get_incidents(pages, period, fault) ==
    LET From[p \in 1..(Len(pages) + 1)] ==
            IF p > Len(pages) THEN NoMorePages(FALSE)
            ELSE IF p \in fault.pages THEN PageRequested(p, NoMorePages(TRUE))
            ELSE PageRequested(p, [From[p + 1] EXCEPT
                                      !.items = IncidentsOfPage(pages[p], period) \o @])
    IN  ClientAnswer(From[1])

\* the items of the first repository on whose fetch failed are lost with
\* those of the repositories after it
GatherRepos_stops(outcomes) ==
    LET failed == {k \in 1..Len(outcomes) : outcomes[k].status = "raised"}
    IN  extend_all([k \in 1..Len(outcomes) |->
                       IF \E f \in failed : f <= k THEN <<>> ELSE outcomes[k].value])

\* tasks.py lines 75-84 and 104-113, backfill.py lines 88-105: the call for
\* a repository that raises is caught and adds nothing, the items of the
\* others are joined in repository order
GatherRepos(outcomes) ==
    extend_all([k \in 1..Len(outcomes) |->
                   IF outcomes[k].status = "raised" THEN <<>> ELSE outcomes[k].value])

\* backfill.py lines 86-113: what backfill_period holds after the fetches
BackfillFetch(env, fault, period) ==
    [deployments |-> FetchRepos(Repos, fault.deployments, period, UpstreamDeployments),
     pull_requests |-> FetchRepos(Repos, fault.pull_requests, period, UpstreamPullRequests),
     incidents |-> IF env.incident_io /\ ~fault.incidents
                   THEN UpstreamIncidents(period) ELSE <<>>]

\* backfill.py lines 120-122, tasks.py lines 87, 116, 141
DumpData(data) ==
    [deployments |-> DumpAll(data.deployments, DumpDeployment),
     pull_requests |-> DumpAll(data.pull_requests, DumpPullRequest),
     incidents |-> DumpAll(data.incidents, DumpIncident)]

\* tasks.py lines 164-168: the models rebuilt from their JSON form
ParseInstant(v) == IF v.kind = "str" THEN Datetime(v.t) ELSE v
ParseData(json) ==
    [deployments |-> [k \in 1..Len(json.deployments) |->
                         [json.deployments[k] EXCEPT !.created_at = ParseInstant(@)]],
     pull_requests |-> [k \in 1..Len(json.pull_requests) |->
                         [json.pull_requests[k] EXCEPT !.created_at = ParseInstant(@),
                                                       !.merged_at = ParseInstant(@),
                                                       !.first_commit_at = ParseInstant(@)]],
     incidents |-> [k \in 1..Len(json.incidents) |->
                         [json.incidents[k] EXCEPT !.created_at = ParseInstant(@),
                                                   !.resolved_at = ParseInstant(@),
                                                   !.impact_started_at = ParseInstant(@)]]]

\* backfill.py lines 124-126, tasks.py lines 204-206: the three upserts
StoreRaw(tables, json, now) ==
    [tables EXCEPT
        !.deployments = upsert_deployments(@, json.deployments, now),
        !.pull_requests = upsert_pull_requests(@, json.pull_requests, now),
        !.incidents = upsert_incidents(@, json.incidents, now)]

\* tasks.py lines 32-53, the current instant being that of the clock
WallClock(c) == plus_timedelta(Date(2024, 1, 17, 36000), c * 3600)

\* the week and the month that contain now instead of the ones before them
_get_period_current(period_type, now) ==
    IF period_type = "weekly"
    THEN LET days_since_monday == weekday(now)
             this_monday == plus_timedelta(now, 0 - timedelta(days_since_monday, 0, 0, 0))
             this_sunday == plus_timedelta(this_monday, timedelta(6, 0, 0, 0))
         IN  MetricsPeriod("weekly", [this_monday EXCEPT !.sec = 0],
                           [this_sunday EXCEPT !.sec = 23 * 3600 + 59 * 60 + 59])
    ELSE LET first_of_this_month == [now EXCEPT !.day = 1, !.sec = 0]
             last_of_this_month ==
                 [now EXCEPT !.day = DaysInMonth(now.year, now.month)]
         IN  MetricsPeriod("monthly", first_of_this_month,
                           [last_of_this_month EXCEPT !.sec = 23 * 3600 + 59 * 60 + 59])

\* tasks.py lines 32-53 (workflow.py lines 35-58 is the same text)
_get_period(period_type, now) ==
    IF period_type = "weekly"
    THEN LET days_since_monday == weekday(now)
             last_monday == plus_timedelta(now, 0 - timedelta(days_since_monday + 7, 0, 0, 0))
             last_sunday == plus_timedelta(last_monday, timedelta(6, 0, 0, 0))
         IN  MetricsPeriod("weekly", [last_monday EXCEPT !.sec = 0],
                           [last_sunday EXCEPT !.sec = 23 * 3600 + 59 * 60 + 59])
    ELSE LET first_of_this_month == [now EXCEPT !.day = 1, !.sec = 0]
             last_of_prev_month == plus_timedelta(first_of_this_month, 0 - timedelta(1, 0, 0, 0))
             first_of_prev_month == [last_of_prev_month EXCEPT !.day = 1]
         IN  MetricsPeriod("monthly", first_of_prev_month,
                           [last_of_prev_month EXCEPT !.sec = 23 * 3600 + 59 * 60 + 59])

(***************************************************************************)
(* State                                                                   *)
(***************************************************************************)
VARIABLES
    gp_args,      \* arguments of a generate_periods call
    gp_pc,        \* "call" before the call, "done" after it returned
    gp_result,    \* the list the call returned (periods, while the call runs)
    gp_current,   \* the local current of a generate_periods call that is running
    fn_pc,        \* "call" before a call of _get_period or of the calculator, "done" after
    fn_args,      \* the arguments of that call
    fn_result,    \* the value it returned
    clock,        \* the instant datetime.utcnow() returns
    db,           \* the committed tables of the database
    session,      \* the AsyncSession in use: open or not, and the tables as it sees them
    calls,        \* number of repository calls made so far
    last_call,    \* the latest repository call on the open session
    env,          \* the environment variables of the process
    run,          \* the orchestrator run in progress: kind and periods
    pc,           \* position of the run
    loop_i,       \* the loop variable i: index of the period being processed, from 0
    frame,        \* locals of the period being processed
    results,      \* the per-period results recorded (or yielded) so far
    outcome,      \* how the run ended: returned value or raised error
    attempts,     \* number of periods processed so far, over all runs
    db0,          \* the committed tables when the current period started
    snapshots_committed, \* number of create_snapshot calls whose session committed
    _current_run, \* the module-level _current_run of api/routers/backfill.py
    render,       \* the Render API: whether it is configured, and its task runs
    requests,     \* the requests the API server is handling, each with its position
    triggered     \* the task runs started since _current_run was last cleared

gp_vars == <<gp_args, gp_pc, gp_result, gp_current>>
fn_vars == <<fn_pc, fn_args, fn_result>>
store_vars == <<clock, db, session, calls, last_call>>
run_vars == <<env, run, pc, loop_i, frame, results, outcome, attempts, db0, snapshots_committed>>

api_vars == <<_current_run, render, requests, triggered>>

vars == <<gp_args, gp_pc, gp_result, gp_current, fn_pc, fn_args, fn_result, clock, db, session, calls, last_call,
          env, run, pc, loop_i, frame, results, outcome, attempts, db0, snapshots_committed,
          _current_run, render, requests, triggered>>

(***************************************************************************)
(* Specification of generate_periods: the arguments are drawn from the     *)
(* input window, the call is one step.                                     *)
(***************************************************************************)
InputDays == FirstDay..(FirstDay + MaxSpan)
StartSecs == {0, 45296}
EndSecs == {0, 86399}
PeriodTypes == {"weekly", "monthly"}

InputDate(n, s) ==
    LET d == fromordinal(n)
    IN  [year |-> d.year, month |-> d.month, day |-> d.day, sec |-> s]

GpIdle ==
    /\ gp_args = [start_date |-> InputDate(FirstDay, 0), end_date |-> InputDate(FirstDay, 0),
                  period_type |-> "weekly"]
    /\ gp_pc = "idle"
    /\ gp_result = <<>>
    /\ gp_current = InputDate(FirstDay, 0)

FnIdle ==
    /\ fn_pc = "idle"
    /\ fn_args = None
    /\ fn_result = None

NoSession == [open |-> FALSE, tables |-> EmptyTables]
NoCall == [op |-> "none", records |-> <<>>, count |-> 0, times |-> 0]

StoreIdle ==
    /\ clock = 0
    /\ db = EmptyTables
    /\ session = NoSession
    /\ calls = 0
    /\ last_call = NoCall

EmptyData == [deployments |-> <<>>, pull_requests |-> <<>>, incidents |-> <<>>]
\* the locals of the running function; fault and upstream record what the
\* upstream did during its fetch and which client calls were started, tasks
\* and finished the fetch tasks of a gather and the order they ended in
EmptyFrame ==
    [data |-> EmptyData, dep_count |-> 0, pr_count |-> 0, inc_count |-> 0,
     snapshot_id |-> 0, metrics |-> None, result |-> None, error |-> "",
     fault |-> None, upstream |-> {}, tasks |-> <<>>, finished |-> <<>>]
\* delays counts the inter-period sleeps of the run
NoRun == [kind |-> "none", periods |-> <<>>, delays |-> 0]
NoOutcome == [status |-> "none"]

\* the concurrent requests the server handles
MaxConcurrent == 2

NoRequest == [handler |-> "none", pc |-> "idle", local |-> None, response |-> None]

ApiIdle ==
    /\ _current_run = None
    /\ render = [configured |-> TRUE, runs |-> <<>>]
    /\ requests = [r \in 1..MaxConcurrent |-> NoRequest]
    /\ triggered = {}

RunIdle ==
    /\ env = [github |-> TRUE, incident_io |-> TRUE]
    /\ run = NoRun
    /\ pc = "idle"
    /\ loop_i = 0
    /\ frame = EmptyFrame
    /\ results = <<>>
    /\ outcome = NoOutcome
    /\ attempts = 0
    /\ db0 = EmptyTables
    /\ snapshots_committed = 0

InitPeriods ==
    /\ ApiIdle
    /\ StoreIdle
    /\ RunIdle
    /\ FnIdle
    /\ \E ds \in InputDays, de \in InputDays, ss \in StartSecs, se \in EndSecs,
          pt \in PeriodTypes :
          gp_args = [start_date |-> InputDate(ds, ss), end_date |-> InputDate(de, se),
                     period_type |-> pt]
    /\ gp_pc = "call"
    /\ gp_result = <<>>
    /\ gp_current = InputDate(FirstDay, 0)

GeneratePeriodsCall ==
    /\ gp_pc = "call"
    /\ gp_result' = generate_periods(gp_args.start_date, gp_args.end_date, gp_args.period_type)
    /\ gp_pc' = "done"
    /\ UNCHANGED <<gp_args, gp_current>>
    /\ UNCHANGED store_vars
    /\ UNCHANGED <<fn_vars, run_vars, api_vars>>

NextPeriods == GeneratePeriodsCall

SpecPeriods == InitPeriods /\ [][NextPeriods]_vars

\* generate_periods run statement by statement.
\* lines 30-36 and 50: current is normalised and aligned
GP_Enter ==
    /\ gp_pc = "call"
    /\ gp_current' = IF gp_args.period_type = "weekly"
                     THEN AlignToMonday(NormalizeStart(gp_args.start_date))
                     ELSE [NormalizeStart(gp_args.start_date) EXCEPT !.day = 1]
    /\ gp_result' = <<>>
    /\ gp_pc' = "loop"
    /\ UNCHANGED gp_args
    /\ UNCHANGED <<fn_vars, store_vars, run_vars, api_vars>>

\* lines 39, 54-58: the end of the period that starts at current
PeriodEnd(current, period_type) ==
    IF period_type = "weekly"
    THEN WeeklyPeriodEnd(current)
    ELSE plus_timedelta(NextMonth(current), 0 - timedelta(0, 0, 0, 1))

\* lines 47, 68: the start of the next period
NextCurrent(current, period_type) ==
    IF period_type = "weekly"
    THEN plus_timedelta(current, timedelta(7, 0, 0, 0))
    ELSE NextMonth(current)

\* an iteration that emits the rest of the range as a last, shorter period
GP_Iterate_partial ==
    /\ gp_pc = "loop"
    /\ dt_lt(gp_current, NormalizeEnd(gp_args.end_date))
    /\ LET end == NormalizeEnd(gp_args.end_date)
           period_end == PeriodEnd(gp_current, gp_args.period_type)
       IN  /\ gp_result' = Append(gp_result,
                                  MetricsPeriod(gp_args.period_type, gp_current,
                                                IF dt_gt(period_end, end) THEN end
                                                ELSE period_end))
           /\ gp_current' = NextCurrent(gp_current, gp_args.period_type)
           /\ gp_pc' = "loop"
    /\ UNCHANGED gp_args
    /\ UNCHANGED <<fn_vars, store_vars, run_vars, api_vars>>

\* lines 38-47, 52-68: one iteration of the while loop that appends a period
GP_Iterate ==
    /\ gp_pc = "loop"
    /\ dt_lt(gp_current, NormalizeEnd(gp_args.end_date))
    /\ LET period_end == PeriodEnd(gp_current, gp_args.period_type)
       IN  /\ ~dt_gt(period_end, NormalizeEnd(gp_args.end_date))
           /\ gp_result' = Append(gp_result,
                                  MetricsPeriod(gp_args.period_type, gp_current, period_end))
           /\ gp_current' = NextCurrent(gp_current, gp_args.period_type)
           /\ gp_pc' = "loop"
    /\ UNCHANGED gp_args
    /\ UNCHANGED <<fn_vars, store_vars, run_vars, api_vars>>

\* lines 40-41, 60-61: the break
GP_Break ==
    /\ gp_pc = "loop"
    /\ dt_lt(gp_current, NormalizeEnd(gp_args.end_date))
    /\ dt_gt(PeriodEnd(gp_current, gp_args.period_type), NormalizeEnd(gp_args.end_date))
    /\ gp_pc' = "done"
    /\ UNCHANGED <<gp_args, gp_result, gp_current>>
    /\ UNCHANGED <<fn_vars, store_vars, run_vars, api_vars>>

\* lines 38, 52, 70: the loop condition is false
GP_Exit ==
    /\ gp_pc = "loop"
    /\ ~dt_lt(gp_current, NormalizeEnd(gp_args.end_date))
    /\ gp_pc' = "done"
    /\ UNCHANGED <<gp_args, gp_result, gp_current>>
    /\ UNCHANGED <<fn_vars, store_vars, run_vars, api_vars>>

NextLoop ==
    \/ GP_Enter
    \/ GP_Iterate
    \/ GP_Break
    \/ GP_Exit

SpecPeriodsLoop == InitPeriods /\ [][NextLoop]_vars

(***************************************************************************)
(* Specification of the store: the three upserts are called with candidate *)
(* lists on an open session, and the clock advances between the calls.     *)
(***************************************************************************)
DeploymentDict(id, v) ==
    [id |-> id,
     sha |-> IF v = 1 THEN "sha-a" ELSE "sha-b",
     ref |-> IF v = 1 THEN "main" ELSE "release",
     environment |-> IF v = 1 THEN "production" ELSE "staging",
     status |-> IF v = 1 THEN "pending" ELSE "success",
     created_at |-> IF v = 1 THEN IsoString(10, TRUE) ELSE IsoString(20, FALSE)]

PullRequestDict(number, v) ==
    IF v = 1
    THEN [number |-> number, title |-> "title-a", created_at |-> IsoString(1, TRUE),
          merged_at |-> None]
    ELSE [number |-> number, title |-> "title-b", created_at |-> IsoString(2, FALSE),
          merged_at |-> IsoString(5, TRUE), first_commit_at |-> IsoString(3, TRUE)]

IncidentDict(id, v) ==
    IF v = 1
    THEN [id |-> id, name |-> "name-a", status |-> "open", severity |-> "major",
          created_at |-> IsoString(1, TRUE), resolved_at |-> None]
    ELSE [id |-> id, name |-> "name-b", status |-> "closed", severity |-> "minor",
          created_at |-> IsoString(2, FALSE), resolved_at |-> IsoString(9, TRUE),
          impact_started_at |-> IsoString(3, TRUE), duration_seconds |-> Float(21600),
          time_to_resolve_hours |-> Float(6), is_change_related |-> FALSE,
          is_user_impacting |-> FALSE]

Variants == {1, 2}
DeploymentDicts == {DeploymentDict(id, v) : id \in {101, 102}, v \in Variants}
PullRequestDicts == {PullRequestDict(n, v) : n \in {7, 8}, v \in Variants}
IncidentDicts == {IncidentDict(id, v) : id \in {"inc-1", "inc-2"}, v \in Variants}

\* the candidate lists of a call: empty or one record; for deployments also
\* two records, which may carry the same id
Lists1(S) == {<<>>} \cup {<<a>> : a \in S}
Lists2(S) == Lists1(S) \cup {<<a, b>> : a \in S, b \in S}

InitStore ==
    /\ ApiIdle
    /\ GpIdle
    /\ FnIdle
    /\ RunIdle
    /\ clock = 0
    /\ db = EmptyTables
    /\ session = [open |-> TRUE, tables |-> db]
    /\ calls = 0
    /\ last_call = NoCall

UpsertCall(op, records, tables) ==
    /\ session.open
    /\ calls < MaxCalls
    /\ session' = [session EXCEPT !.tables = tables]
    /\ last_call' = [op |-> op, records |-> records, count |-> upsert_count(records),
                     times |-> IF last_call.op = op /\ last_call.records = records
                               THEN last_call.times + 1 ELSE 1]
    /\ calls' = calls + 1
    /\ UNCHANGED <<clock, db>>

UpsertDeploymentsCall ==
    \E deployments \in Lists2(DeploymentDicts) :
        UpsertCall("upsert_deployments", deployments,
                   [session.tables EXCEPT
                       !.deployments = upsert_deployments(@, deployments, clock)])

UpsertPullRequestsCall ==
    \E pull_requests \in Lists1(PullRequestDicts) :
        UpsertCall("upsert_pull_requests", pull_requests,
                   [session.tables EXCEPT
                       !.pull_requests = upsert_pull_requests(@, pull_requests, clock)])

UpsertIncidentsCall ==
    \E incidents \in Lists1(IncidentDicts) :
        UpsertCall("upsert_incidents", incidents,
                   [session.tables EXCEPT
                       !.incidents = upsert_incidents(@, incidents, clock)])

\* time passes between two calls of datetime.utcnow()
Tick ==
    /\ clock < MaxClock
    /\ clock' = clock + 1
    /\ UNCHANGED <<db, session, calls, last_call>>

NextStore ==
    \/ (UpsertDeploymentsCall /\ UNCHANGED <<gp_vars, fn_vars, run_vars, api_vars>>)
    \/ (UpsertPullRequestsCall /\ UNCHANGED <<gp_vars, fn_vars, run_vars, api_vars>>)
    \/ (UpsertIncidentsCall /\ UNCHANGED <<gp_vars, fn_vars, run_vars, api_vars>>)
    \/ (Tick /\ UNCHANGED <<gp_vars, fn_vars, run_vars, api_vars>>)

SpecStore == InitStore /\ [][NextStore]_vars

(***************************************************************************)
(* Specification of the orchestrators: run_metrics_pipeline and            *)
(* run_backfill_pipeline (tasks.py) and run_backfill (backfill.py) run one *)
(* after the other on one database; every upstream call and every          *)
(* persistence call may fail.                                              *)
(***************************************************************************)
\* the date ranges a backfill is asked for: three weeks, no full week, two
\* months, one week
BackfillRanges ==
    {[start_date |-> Date(2024, 1, 1, 0), end_date |-> Date(2024, 1, 21, 86399),
      period_type |-> "weekly"],
     [start_date |-> Date(2024, 1, 10, 0), end_date |-> Date(2024, 1, 12, 86399),
      period_type |-> "weekly"],
     [start_date |-> Date(2023, 12, 5, 0), end_date |-> Date(2024, 1, 31, 86399),
      period_type |-> "monthly"],
     [start_date |-> Date(2024, 1, 8, 0), end_date |-> Date(2024, 1, 14, 86399),
      period_type |-> "weekly"]}

total == Len(run.periods)
period == run.periods[loop_i + 1]
Progress == ToString(loop_i + 1) \o "/" \o ToString(total)

InitRuns ==
    /\ ApiIdle
    /\ GpIdle
    /\ FnIdle
    /\ StoreIdle
    /\ env \in Envs
    /\ run = NoRun
    /\ pc = "idle"
    /\ loop_i = 0
    /\ frame = EmptyFrame
    /\ results = <<>>
    /\ outcome = NoOutcome
    /\ attempts = 0
    /\ db0 = EmptyTables
    /\ snapshots_committed = 0

NewRun(kind, periods) ==
    /\ pc \in {"idle", "done"}
    /\ run' = [kind |-> kind, periods |-> periods, delays |-> 0]
    /\ loop_i' = 0
    /\ frame' = EmptyFrame
    /\ results' = <<>>
    /\ outcome' = [status |-> "running"]

\* an exception leaves backfill_period; a session in use is closed on the
\* way out (session.py lines 79-80) and what it wrote is dropped
BP_Raise(error) ==
    /\ pc' = "bp_raised"
    /\ frame' = [frame EXCEPT !.error = error]
    /\ session' = NoSession
    /\ UNCHANGED <<clock, db, calls, last_call, env, run, loop_i, results, outcome, attempts, db0,
                   snapshots_committed>>

\* backfill.py lines 83-84
BP_Clients ==
    /\ pc = "bp_clients"
    /\ IF ~env.github
       THEN BP_Raise(ConfigError)
       ELSE /\ pc' = "bp_fetch"
            /\ UNCHANGED <<store_vars, env, run, loop_i, frame, results, outcome, attempts, db0,
                           snapshots_committed>>

\* the client calls of a fetch of all three sources
FetchCalls(e) ==
    {"get_repos", "get_deployments", "get_pull_requests"}
        \cup (IF e.incident_io THEN {"get_dora_incidents"} ELSE {})

\* backfill.py lines 86-113: a failing get_repos leaves the function, a
\* failing get_deployments, get_pull_requests or get_dora_incidents is
\* caught and its items are missing
BP_Fetch ==
    /\ pc = "bp_fetch"
    /\ \E fault \in FetchFaults :
          /\ IF "backfill_period" \in fault.get_repos
             THEN /\ frame' = [frame EXCEPT !.error = UpstreamError, !.fault = fault,
                                            !.upstream = {"get_repos"}]
                  /\ pc' = "bp_raised"
             ELSE /\ frame' = [frame EXCEPT !.data = BackfillFetch(env, fault, period),
                                            !.fault = fault, !.upstream = FetchCalls(env)]
                  /\ pc' = "bp_store"
          /\ UNCHANGED <<store_vars, env, run, loop_i, results, outcome, attempts, db0,
                         snapshots_committed>>

\* the raw data committed on their own, before the snapshot is created
BP_Store_commits ==
    /\ pc = "bp_store"
    /\ \/ BP_Raise(PersistenceError)
       \/ LET json == DumpData(frame.data)
          IN  /\ session' = [open |-> TRUE, tables |-> StoreRaw(db, json, clock)]
              /\ db' = StoreRaw(db, json, clock)
              /\ frame' = [frame EXCEPT !.dep_count = upsert_count(json.deployments),
                                        !.pr_count = upsert_count(json.pull_requests),
                                        !.inc_count = upsert_count(json.incidents)]
              /\ pc' = "bp_snapshot"
              /\ UNCHANGED <<clock, calls, last_call, env, run, loop_i, results, outcome,
                             attempts, db0, snapshots_committed>>

\* backfill.py lines 116-126: the session is opened and the three upserts run in it
BP_Store ==
    /\ pc = "bp_store"
    /\ \/ BP_Raise(PersistenceError)
       \/ LET json == DumpData(frame.data)
          IN  /\ session' = [open |-> TRUE, tables |-> StoreRaw(db, json, clock)]
              /\ frame' = [frame EXCEPT !.dep_count = upsert_count(json.deployments),
                                        !.pr_count = upsert_count(json.pull_requests),
                                        !.inc_count = upsert_count(json.incidents)]
              /\ pc' = "bp_snapshot"
              /\ UNCHANGED <<clock, db, calls, last_call, env, run, loop_i, results, outcome,
                             attempts, db0, snapshots_committed>>

\* backfill.py lines 128-135
BP_Snapshot ==
    /\ pc = "bp_snapshot"
    /\ \/ BP_Raise(PersistenceError)
       \/ LET metrics == calculate_dora_metrics(frame.data, period, clock)
              table == create_snapshot(session.tables.snapshots, metrics, period, clock)
          IN  /\ session' = [session EXCEPT !.tables.snapshots = table]
              /\ frame' = [frame EXCEPT !.metrics = metrics,
                                        !.snapshot_id = table[Len(table)].id]
              /\ pc' = "bp_commit"
              /\ UNCHANGED <<clock, db, calls, last_call, env, run, loop_i, results, outcome,
                             attempts, db0, snapshots_committed>>

\* backfill.py lines 137-148: commit, leave the session, build the result
BP_Commit ==
    /\ pc = "bp_commit"
    /\ \/ BP_Raise(PersistenceError)
       \/ /\ db' = session.tables
          /\ session' = NoSession
          /\ snapshots_committed' = snapshots_committed + 1
          /\ frame' = [frame EXCEPT !.result =
                          [period_start |-> isoformat(period.start_date),
                           period_end |-> isoformat(period.end_date),
                           deployments |-> frame.dep_count,
                           pull_requests |-> frame.pr_count,
                           incidents |-> frame.inc_count,
                           snapshot_id |-> frame.snapshot_id]]
          /\ pc' = "bp_returned"
          /\ UNCHANGED <<clock, calls, last_call, env, run, loop_i, results, outcome, attempts, db0>>

\* a call of backfill_period for the next period of the loop
CallBackfillPeriod(kind) ==
    /\ pc = "loop"
    /\ run.kind = kind
    /\ loop_i < total
    /\ attempts < MaxAttempts
    /\ pc' = "bp_clients"
    /\ frame' = EmptyFrame
    /\ attempts' = attempts + 1
    /\ db0' = db
    /\ UNCHANGED <<store_vars, env, run, loop_i, results, outcome, snapshots_committed>>

\* tasks.py lines 400-416
BFP_Start ==
    /\ \E range \in BackfillRanges :
          LET start_date == fromisoformat(IsoString(timestamp(range.start_date), TRUE))
              end_date == fromisoformat(IsoString(timestamp(range.end_date), TRUE))
          IN  NewRun("run_backfill_pipeline",
                     generate_periods(start_date, end_date, range.period_type))
    /\ pc' = "loop"
    /\ UNCHANGED <<store_vars, env, attempts, db0, snapshots_committed>>

\* tasks.py lines 417-420
BFP_NextPeriod == CallBackfillPeriod("run_backfill_pipeline")

\* tasks.py lines 421-424 and 434-438
BFP_PeriodReturned ==
    /\ pc = "bp_returned"
    /\ run.kind = "run_backfill_pipeline"
    /\ results' = Append(results, [progress |-> Progress] @@ frame.result)
    /\ loop_i' = loop_i + 1
    /\ pc' = IF loop_i < total - 1 THEN "delay" ELSE "loop"
    /\ frame' = EmptyFrame
    /\ UNCHANGED <<store_vars, env, run, outcome, attempts, db0, snapshots_committed>>

\* the error handler of the loop raising the error again
BFP_PeriodRaised_reraise ==
    /\ pc = "bp_raised"
    /\ run.kind = "run_backfill_pipeline"
    /\ outcome' = [status |-> "raised", error |-> frame.error]
    /\ pc' = "done"
    /\ frame' = EmptyFrame
    /\ UNCHANGED <<store_vars, env, run, loop_i, results, attempts, db0, snapshots_committed>>

\* tasks.py lines 425-438
BFP_PeriodRaised ==
    /\ pc = "bp_raised"
    /\ run.kind = "run_backfill_pipeline"
    /\ results' = Append(results, [period_start |-> isoformat(period.start_date),
                                   period_end |-> isoformat(period.end_date),
                                   error |-> frame.error,
                                   progress |-> Progress])
    /\ loop_i' = loop_i + 1
    /\ pc' = IF loop_i < total - 1 THEN "delay" ELSE "loop"
    /\ frame' = EmptyFrame
    /\ UNCHANGED <<store_vars, env, run, outcome, attempts, db0, snapshots_committed>>

\* tasks.py lines 434-436, backfill.py lines 173-175: the sleep between two
\* periods
InterPeriodDelay(kind) ==
    /\ pc = "delay"
    /\ run.kind = kind
    /\ run' = [run EXCEPT !.delays = @ + 1]
    /\ pc' = "loop"
    /\ UNCHANGED <<store_vars, env, loop_i, frame, results, outcome, attempts, db0,
                   snapshots_committed>>

\* tasks.py lines 434-436
BFP_Delay == InterPeriodDelay("run_backfill_pipeline")

\* tasks.py lines 445-446
CountResults(rs, with_error) ==
    Cardinality({k \in 1..Len(rs) : ("error" \in DOMAIN rs[k]) = with_error})

\* tasks.py lines 440-454
BFP_Finish ==
    /\ pc = "loop"
    /\ run.kind = "run_backfill_pipeline"
    /\ loop_i = total
    /\ outcome' = [status |-> "returned",
                   value |-> [total_periods |-> total,
                              successful |-> CountResults(results, FALSE),
                              failed |-> CountResults(results, TRUE),
                              results |-> results]]
    /\ pc' = "done"
    /\ UNCHANGED <<store_vars, env, run, loop_i, frame, results, attempts, db0, snapshots_committed>>

\* backfill.py lines 161-166
RB_Start ==
    /\ \E range \in BackfillRanges :
          NewRun("run_backfill",
                 generate_periods(range.start_date, range.end_date, range.period_type))
    /\ pc' = "loop"
    /\ UNCHANGED <<store_vars, env, attempts, db0, snapshots_committed>>

\* backfill.py lines 168-169
RB_NextPeriod == CallBackfillPeriod("run_backfill")

\* backfill.py lines 170-175: the result is yielded to the consumer
RB_Yield ==
    /\ pc = "bp_returned"
    /\ run.kind = "run_backfill"
    /\ results' = Append(results, [progress |-> Progress] @@ frame.result)
    /\ loop_i' = loop_i + 1
    /\ pc' = IF loop_i < total - 1 THEN "delay" ELSE "loop"
    /\ frame' = EmptyFrame
    /\ UNCHANGED <<store_vars, env, run, outcome, attempts, db0, snapshots_committed>>

\* backfill.py lines 173-175
RB_Delay == InterPeriodDelay("run_backfill")

\* backfill.py line 169: nothing catches an exception of backfill_period;
\* it leaves the generator, which is finished by it
RB_Raised ==
    /\ pc = "bp_raised"
    /\ run.kind = "run_backfill"
    /\ outcome' = [status |-> "raised", error |-> frame.error]
    /\ pc' = "done"
    /\ frame' = EmptyFrame
    /\ UNCHANGED <<store_vars, env, run, loop_i, results, attempts, db0, snapshots_committed>>

\* backfill.py line 177: the generator is exhausted
RB_Finish ==
    /\ pc = "loop"
    /\ run.kind = "run_backfill"
    /\ loop_i = total
    /\ outcome' = [status |-> "returned"]
    /\ pc' = "done"
    /\ UNCHANGED <<store_vars, env, run, loop_i, frame, results, attempts, db0, snapshots_committed>>

\* an exception leaves run_metrics_pipeline
MP_Raise(error) ==
    /\ outcome' = [status |-> "raised", error |-> error, stage |-> pc]
    /\ pc' = "done"
    /\ frame' = EmptyFrame
    /\ UNCHANGED <<store_vars, env, run, loop_i, results, attempts, db0, snapshots_committed>>

\* an exception of a fetch task leaves run_metrics_pipeline through the
\* gather of tasks.py lines 310-314
MP_FetchRaise(error, fault, started) ==
    /\ outcome' = [status |-> "raised", error |-> error, stage |-> pc]
    /\ pc' = "done"
    /\ frame' = [EmptyFrame EXCEPT !.fault = fault, !.upstream = started]
    /\ UNCHANGED <<store_vars, env, run, loop_i, results, attempts, db0, snapshots_committed>>

\* tasks.py lines 297-298
MP_Start ==
    /\ attempts < MaxAttempts
    /\ \E period_type \in PeriodTypes :
          NewRun("run_metrics_pipeline", <<_get_period(period_type, WallClock(clock))>>)
    /\ pc' = "mp_fetch"
    /\ attempts' = attempts + 1
    /\ db0' = db
    /\ UNCHANGED <<store_vars, env, snapshots_committed>>

\* the client calls of the three fetch tasks: each GitHub task builds its
\* client first (tasks.py lines 68, 97), the incident task needs none of
\* the GitHub settings (tasks.py lines 129-137)
PipelineCalls(e, failing) ==
    (IF e.github
     THEN {"get_repos"}
          \cup (IF "fetch_github_deployments" \in failing THEN {} ELSE {"get_deployments"})
          \cup (IF "fetch_github_pull_requests" \in failing THEN {} ELSE {"get_pull_requests"})
     ELSE {})
        \cup (IF e.incident_io THEN {"get_dora_incidents"} ELSE {})

\* a failing incident fetch is taken as no incidents
MP_Fetch_degrades ==
    /\ pc = "mp_fetch"
    /\ \E fault \in FetchFaults :
          IF ~env.github
          THEN \E issued \in BOOLEAN :
                  MP_FetchRaise(ConfigError, None,
                                IF issued THEN PipelineCalls(env, {}) ELSE {})
          ELSE IF fault.get_repos \cap {"fetch_github_deployments",
                                        "fetch_github_pull_requests"} # {}
          THEN MP_FetchRaise(UpstreamError, fault, PipelineCalls(env, fault.get_repos))
          ELSE /\ frame' = [frame EXCEPT
                               !.data = DumpData(BackfillFetch(env, fault, period)),
                               !.fault = fault, !.upstream = PipelineCalls(env, {})]
               /\ pc' = "mp_store_raw"
               /\ UNCHANGED <<store_vars, env, run, loop_i, results, outcome, attempts, db0,
                              snapshots_committed>>

\* tasks.py lines 310-314 with the three fetch tasks, lines 61-141: the
\* three tasks are started together; the first exception of one of them
\* leaves the gather, which cancels none of the others: when the GitHub
\* tasks fail building their client, the incident task has been started
\* and its request is sent or not, as the scheduling has it
MP_Fetch ==
    /\ pc = "mp_fetch"
    /\ \E fault \in FetchFaults :
          IF ~env.github
          THEN \E issued \in BOOLEAN :
                  MP_FetchRaise(ConfigError, None,
                                IF issued THEN PipelineCalls(env, {}) ELSE {})
          ELSE IF \/ fault.get_repos \cap {"fetch_github_deployments",
                                           "fetch_github_pull_requests"} # {}
                  \/ env.incident_io /\ fault.incidents
          THEN MP_FetchRaise(UpstreamError, fault, PipelineCalls(env, fault.get_repos))
          ELSE /\ frame' = [frame EXCEPT
                               !.data = DumpData(BackfillFetch(env, fault, period)),
                               !.fault = fault, !.upstream = PipelineCalls(env, {})]
               /\ pc' = "mp_store_raw"
               /\ UNCHANGED <<store_vars, env, run, loop_i, results, outcome, attempts, db0,
                              snapshots_committed>>

\* tasks.py lines 326-330 with store_raw_data, lines 185-217
MP_StoreRaw ==
    /\ pc = "mp_store_raw"
    /\ \/ MP_Raise(PersistenceError)
       \/ /\ db' = StoreRaw(db, frame.data, clock)
          /\ frame' = [frame EXCEPT !.dep_count = upsert_count(frame.data.deployments),
                                    !.pr_count = upsert_count(frame.data.pull_requests),
                                    !.inc_count = upsert_count(frame.data.incidents)]
          /\ pc' = "mp_calculate"
          /\ UNCHANGED <<clock, session, calls, last_call, env, run, loop_i, results, outcome,
                         attempts, db0, snapshots_committed>>

\* tasks.py lines 339-344 with calculate_metrics, lines 149-177
MP_Calculate ==
    /\ pc = "mp_calculate"
    /\ \/ MP_Raise(TaskError)
       \/ /\ frame' = [frame EXCEPT
                          !.metrics = calculate_dora_metrics(ParseData(frame.data), period,
                                                             clock)]
          /\ pc' = "mp_store_snapshot"
          /\ UNCHANGED <<store_vars, env, run, loop_i, results, outcome, attempts, db0,
                         snapshots_committed>>

\* tasks.py line 353 with store_metrics_snapshot, lines 220-241
MP_StoreSnapshot ==
    /\ pc = "mp_store_snapshot"
    /\ \/ MP_Raise(PersistenceError)
       \/ LET table == create_snapshot(db.snapshots, frame.metrics, period, clock)
          IN  /\ db' = [db EXCEPT !.snapshots = table]
              /\ frame' = [frame EXCEPT !.snapshot_id = table[Len(table)].id]
              /\ snapshots_committed' = snapshots_committed + 1
              /\ pc' = "mp_report"
              /\ UNCHANGED <<clock, session, calls, last_call, env, run, loop_i, results, outcome,
                             attempts, db0>>

\* tasks.py lines 362-369 with generate_and_notify, lines 244-268
MP_Report ==
    /\ pc = "mp_report"
    /\ \/ MP_Raise(TaskError)
       \/ /\ outcome' = [status |-> "returned", value |-> "report_markdown"]
          /\ pc' = "done"
          /\ frame' = EmptyFrame
          /\ UNCHANGED <<store_vars, env, run, loop_i, results, attempts, db0,
                         snapshots_committed>>

NextRuns ==
    \/ (BFP_Start /\ UNCHANGED <<gp_vars, fn_vars, api_vars>>)
    \/ (BFP_NextPeriod /\ UNCHANGED <<gp_vars, fn_vars, api_vars>>)
    \/ (BFP_PeriodReturned /\ UNCHANGED <<gp_vars, fn_vars, api_vars>>)
    \/ (BFP_PeriodRaised /\ UNCHANGED <<gp_vars, fn_vars, api_vars>>)
    \/ (BFP_Delay /\ UNCHANGED <<gp_vars, fn_vars, api_vars>>)
    \/ (BFP_Finish /\ UNCHANGED <<gp_vars, fn_vars, api_vars>>)
    \/ (RB_Start /\ UNCHANGED <<gp_vars, fn_vars, api_vars>>)
    \/ (RB_NextPeriod /\ UNCHANGED <<gp_vars, fn_vars, api_vars>>)
    \/ (RB_Yield /\ UNCHANGED <<gp_vars, fn_vars, api_vars>>)
    \/ (RB_Delay /\ UNCHANGED <<gp_vars, fn_vars, api_vars>>)
    \/ (RB_Raised /\ UNCHANGED <<gp_vars, fn_vars, api_vars>>)
    \/ (RB_Finish /\ UNCHANGED <<gp_vars, fn_vars, api_vars>>)
    \/ (BP_Clients /\ UNCHANGED <<gp_vars, fn_vars, api_vars>>)
    \/ (BP_Fetch /\ UNCHANGED <<gp_vars, fn_vars, api_vars>>)
    \/ (BP_Store /\ UNCHANGED <<gp_vars, fn_vars, api_vars>>)
    \/ (BP_Snapshot /\ UNCHANGED <<gp_vars, fn_vars, api_vars>>)
    \/ (BP_Commit /\ UNCHANGED <<gp_vars, fn_vars, api_vars>>)
    \/ (MP_Start /\ UNCHANGED <<gp_vars, fn_vars, api_vars>>)
    \/ (MP_Fetch /\ UNCHANGED <<gp_vars, fn_vars, api_vars>>)
    \/ (MP_StoreRaw /\ UNCHANGED <<gp_vars, fn_vars, api_vars>>)
    \/ (MP_Calculate /\ UNCHANGED <<gp_vars, fn_vars, api_vars>>)
    \/ (MP_StoreSnapshot /\ UNCHANGED <<gp_vars, fn_vars, api_vars>>)
    \/ (MP_Report /\ UNCHANGED <<gp_vars, fn_vars, api_vars>>)

SpecRuns == InitRuns /\ [][NextRuns]_vars

(***************************************************************************)
(* Specification of the gather of run_metrics_pipeline: the three fetch    *)
(* tasks run as siblings on the event loop and end in any order; the       *)
(* pipeline is suspended in asyncio.gather until all of them returned or   *)
(* one of them raised, and the tasks still running then are not cancelled. *)
(***************************************************************************)
\* tasks.py lines 311-313: the tasks in the order of the arguments of gather
FetchTasks == <<"fetch_github_deployments", "fetch_github_pull_requests", "fetch_incidents">>

TaskNames == {FetchTasks[k] : k \in 1..Len(FetchTasks)}

\* tasks.py lines 61-141: how a fetch task ends
TaskOutcome(t, e, fault, of_period) ==
    IF t = "fetch_incidents"
    THEN IF e.incident_io /\ fault.incidents
         THEN [status |-> "raised", error |-> UpstreamError]
         ELSE [status |-> "returned",
               value |-> DumpData(BackfillFetch(e, fault, of_period)).incidents]
    ELSE IF ~e.github THEN [status |-> "raised", error |-> ConfigError]
    ELSE IF t \in fault.get_repos THEN [status |-> "raised", error |-> UpstreamError]
    ELSE [status |-> "returned",
          value |-> IF t = "fetch_github_deployments"
                    THEN DumpData(BackfillFetch(e, fault, of_period)).deployments
                    ELSE DumpData(BackfillFetch(e, fault, of_period)).pull_requests]

\* the results handed out in the order the tasks ended in
GatherResults_as_completed(tasks, finished) ==
    [deployments |-> tasks[finished[1]].value,
     pull_requests |-> tasks[finished[2]].value,
     incidents |-> tasks[finished[3]].value]

\* tasks.py lines 310-314: gather returns the results in the order of its
\* arguments
GatherResults(tasks, finished) ==
    [deployments |-> tasks[FetchTasks[1]].value,
     pull_requests |-> tasks[FetchTasks[2]].value,
     incidents |-> tasks[FetchTasks[3]].value]

InitGather ==
    /\ ApiIdle
    /\ GpIdle
    /\ FnIdle
    /\ StoreIdle
    /\ env \in Envs
    /\ run = NoRun
    /\ pc = "idle"
    /\ loop_i = 0
    /\ frame = EmptyFrame
    /\ results = <<>>
    /\ outcome = NoOutcome
    /\ attempts = 0
    /\ db0 = EmptyTables
    /\ snapshots_committed = 0

\* tasks.py lines 297-314: the period is computed and the three tasks are
\* handed to gather; what the upstream will do to them is drawn here
MPG_Start ==
    /\ pc = "idle"
    /\ \E period_type \in PeriodTypes, fault \in FetchFaults :
          /\ run' = [kind |-> "run_metrics_pipeline",
                     periods |-> <<_get_period(period_type, WallClock(clock))>>,
                     delays |-> 0]
          /\ frame' = [EmptyFrame EXCEPT !.fault = fault,
                                         !.tasks = [t \in TaskNames |-> [status |-> "running"]]]
    /\ loop_i' = 0
    /\ results' = <<>>
    /\ outcome' = [status |-> "running"]
    /\ pc' = "mp_gather"
    /\ attempts' = attempts + 1
    /\ db0' = db
    /\ UNCHANGED <<store_vars, env, snapshots_committed>>

\* a fetch task runs to its end, while the pipeline waits in gather or
\* after gather has raised
MPG_TaskEnds(t) ==
    /\ run.kind = "run_metrics_pipeline"
    /\ pc \in {"mp_gather", "done"}
    /\ t \in DOMAIN frame.tasks
    /\ frame.tasks[t].status = "running"
    /\ frame' = [frame EXCEPT !.tasks[t] = TaskOutcome(t, env, frame.fault, period),
                              !.finished = Append(@, t)]
    /\ UNCHANGED <<store_vars, env, run, pc, loop_i, results, outcome, attempts, db0,
                   snapshots_committed>>

\* tasks.py lines 310-314: all tasks returned, gather returns their results
MPG_GatherReturns ==
    /\ pc = "mp_gather"
    /\ \A t \in TaskNames : frame.tasks[t].status = "returned"
    /\ frame' = [frame EXCEPT !.data = GatherResults(frame.tasks, frame.finished),
                              !.upstream = PipelineCalls(env, {})]
    /\ pc' = "mp_store_raw"
    /\ UNCHANGED <<store_vars, env, run, loop_i, results, outcome, attempts, db0,
                   snapshots_committed>>

\* tasks.py lines 310-314: the first exception of a task leaves gather and
\* run_metrics_pipeline with it; the other tasks go on
MPG_GatherRaises ==
    /\ pc = "mp_gather"
    /\ \E k \in 1..Len(frame.finished) :
          /\ frame.tasks[frame.finished[k]].status = "raised"
          /\ \A j \in 1..(k - 1) : frame.tasks[frame.finished[j]].status = "returned"
          /\ outcome' = [status |-> "raised", error |-> frame.tasks[frame.finished[k]].error,
                         stage |-> pc]
    /\ pc' = "done"
    /\ UNCHANGED <<store_vars, env, run, loop_i, frame, results, attempts, db0,
                   snapshots_committed>>

NextGather ==
    \/ (MPG_Start /\ UNCHANGED <<gp_vars, fn_vars, api_vars>>)
    \/ \E t \in TaskNames : MPG_TaskEnds(t) /\ UNCHANGED <<gp_vars, fn_vars, api_vars>>
    \/ (MPG_GatherReturns /\ UNCHANGED <<gp_vars, fn_vars, api_vars>>)
    \/ (MPG_GatherRaises /\ UNCHANGED <<gp_vars, fn_vars, api_vars>>)
    \/ (MP_StoreRaw /\ UNCHANGED <<gp_vars, fn_vars, api_vars>>)
    \/ (MP_Calculate /\ UNCHANGED <<gp_vars, fn_vars, api_vars>>)
    \/ (MP_StoreSnapshot /\ UNCHANGED <<gp_vars, fn_vars, api_vars>>)
    \/ (MP_Report /\ UNCHANGED <<gp_vars, fn_vars, api_vars>>)

SpecGather == InitGather /\ [][NextGather]_vars

(***************************************************************************)
(* Specification of _get_period: the current instant is drawn from the     *)
(* input window, the call is one step.                                     *)
(***************************************************************************)
NowSecs == {0, 1, 36000, 86399}

InitNow ==
    /\ ApiIdle
    /\ GpIdle
    /\ StoreIdle
    /\ RunIdle
    /\ \E d \in InputDays, sec \in NowSecs, pt \in PeriodTypes :
          fn_args = [period_type |-> pt, now |-> InputDate(d, sec)]
    /\ fn_pc = "call"
    /\ fn_result = None

GetPeriodCall ==
    /\ fn_pc = "call"
    /\ fn_result' = _get_period(fn_args.period_type, fn_args.now)
    /\ fn_pc' = "done"
    /\ UNCHANGED fn_args
    /\ UNCHANGED <<gp_vars, store_vars, run_vars, api_vars>>

NextNow == GetPeriodCall

SpecNow == InitNow /\ [][NextNow]_vars

(***************************************************************************)
(* Specification of the calculator: the fetched data and the period are    *)
(* drawn from input sets, calculate_dora_metrics is called on them, and    *)
(* called again on the same arguments, possibly at a later instant.        *)
(***************************************************************************)
PeriodStart == Date(2024, 1, 10, 37800)

\* lengths of the period, in seconds: none, an hour, a day, a week less a
\* second, a week, 30 days, 31 days less a second, 31 days, 60 days, and an
\* end one day before the start
Durations ==
    {0, 3600, SecondsPerDay, 7 * SecondsPerDay - 1, 7 * SecondsPerDay, 30 * SecondsPerDay,
     31 * SecondsPerDay - 1, 31 * SecondsPerDay, 60 * SecondsPerDay, 0 - SecondsPerDay}

CalcPeriods ==
    {MetricsPeriod("weekly", PeriodStart, plus_timedelta(PeriodStart, d)) : d \in Durations}

CalcDeployment(k, status) ==
    [id |-> k, sha |-> "sha", ref |-> "main", environment |-> "production",
     created_at |-> Datetime(timestamp(PeriodStart) + 60 * k), status |-> status]

\* numbers of successful deployments
SuccessCounts == {0, 1, 2, 6, 7, 10, 19, 20}

\* the deployments that did not succeed, by status
OtherStatuses ==
    {<<>>, <<"failure">>, <<"pending", "in_progress">>, <<"failure", "pending", "in_progress">>}

\* a deployment list: those of the statuses in others, then n successful ones
MakeDeployments(n, others) ==
    [k \in 1..(Len(others) + n) |->
        CalcDeployment(k, IF k <= Len(others) THEN others[k] ELSE "success")]

CalcIncident(k, change_related, hours) ==
    [id |-> "inc-" \o ToString(k), name |-> "incident", status |-> "closed",
     severity |-> "major", created_at |-> Datetime(timestamp(PeriodStart) + 3600),
     resolved_at |-> None, impact_started_at |-> None, duration_seconds |-> None,
     time_to_resolve_hours |-> hours, is_change_related |-> change_related,
     is_user_impacting |-> TRUE]

\* an incident list: n resolved change-related incidents, then m that are
\* not change-related
MakeIncidents(n, m) ==
    [k \in 1..(n + m) |-> CalcIncident(k, k <= n, Float(2))]

CalcPullRequest(first_commit_at, merged_at) ==
    [number |-> 1, title |-> "change", created_at |-> Datetime(timestamp(PeriodStart)),
     merged_at |-> merged_at, first_commit_at |-> first_commit_at]

After(seconds) == Datetime(timestamp(PeriodStart) + seconds)

\* not merged; merged after 1 h less a second, 1 h, 24 h less a second,
\* 168 h less a second, 168 h from creation; merged 24 h after a first
\* commit made 23 h before creation
PullRequestVariants ==
    {CalcPullRequest(None, None),
     CalcPullRequest(After(0 - 7200), None),
     CalcPullRequest(None, After(3599)),
     CalcPullRequest(None, After(3600)),
     CalcPullRequest(None, After(24 * 3600 - 1)),
     CalcPullRequest(After(0 - 23 * 3600), After(3600)),
     CalcPullRequest(None, After(168 * 3600 - 1)),
     CalcPullRequest(None, After(168 * 3600))}

IncidentVariants ==
    {CalcIncident(1, cr, h) : cr \in BOOLEAN,
                              h \in {None, Float(0), Float(1), Float(24), Float(168)}}

ListsUpTo(S, n) == UNION {[1..k -> S] : k \in 0..n}

CalcData(deployments, pull_requests, incidents) ==
    [deployments |-> deployments, pull_requests |-> pull_requests, incidents |-> incidents]

\* the weekly periods of generate_periods over two weeks, and the one of
\* _get_period
WeeklyPeriods ==
    {generate_periods(Date(2024, 1, 10, 37800), Date(2024, 1, 21, 86399), "weekly")[k] :
        k \in 1..2}
        \cup {_get_period("weekly", WallClock(0))}

CalcInputs ==
    {[data |-> CalcData(MakeDeployments(n, others), <<>>, <<>>), period |-> p] :
        n \in {0, 6, 7}, others \in {<<>>, <<"failure">>}, p \in WeeklyPeriods}
    \cup
    {[data |-> CalcData(MakeDeployments(n, others), <<>>, MakeIncidents(c, m)), period |-> p] :
        n \in SuccessCounts, others \in OtherStatuses, c \in 0..4, m \in 0..1,
        p \in CalcPeriods}
    \cup
    {[data |-> CalcData(MakeDeployments(1, <<>>), prs, <<>>),
      period |-> MetricsPeriod("weekly", PeriodStart,
                               plus_timedelta(PeriodStart, 7 * SecondsPerDay - 1))] :
        prs \in ListsUpTo(PullRequestVariants, MaxItems)}
    \cup
    {[data |-> CalcData(MakeDeployments(n, <<>>), <<>>, incs),
      period |-> MetricsPeriod("weekly", PeriodStart,
                               plus_timedelta(PeriodStart, 7 * SecondsPerDay - 1))] :
        n \in {0, 2}, incs \in ListsUpTo(IncidentVariants, MaxItems)}

InitCalc ==
    /\ ApiIdle
    /\ GpIdle
    /\ StoreIdle
    /\ RunIdle
    /\ fn_args \in CalcInputs
    /\ fn_pc = "call"
    /\ fn_result = <<>>

CalculateCall ==
    /\ Len(fn_result) < MaxRepeat
    /\ fn_result' = Append(fn_result,
                           calculate_dora_metrics(fn_args.data, fn_args.period, clock))
    /\ fn_pc' = "done"
    /\ UNCHANGED fn_args
    /\ UNCHANGED <<gp_vars, store_vars, run_vars, api_vars>>

NextCalc ==
    \/ CalculateCall
    \/ (Tick /\ UNCHANGED <<gp_vars, fn_vars, run_vars, api_vars>>)

SpecCalc == InitCalc /\ [][NextCalc]_vars

(***************************************************************************)
(* Specification of the clients: one call of get_deployments,              *)
(* get_pull_requests or get_incidents for a period, on a feed whose items  *)
(* lie before, at the ends of and after the period.                        *)
(***************************************************************************)
MaxPages == 2
PageSize == 2

FetchPeriod == MetricsPeriod("weekly", Date(2024, 1, 8, 0), Date(2024, 1, 14, 86399))

\* the instants of the items: the second before the period, its first and
\* last second, the second after it
FeedTimes ==
    {timestamp(FetchPeriod.start_date) - 1, timestamp(FetchPeriod.start_date),
     timestamp(FetchPeriod.end_date), timestamp(FetchPeriod.end_date) + 1}

\* the feeds: every page but the last is full, the last one holds up to
\* PageSize items; an item is given by its instant (or 0, for a pull
\* request that was closed without a merge)
Feeds(T) ==
    UNION {{feed \in [1..n -> ListsUpTo(T, PageSize)] :
               \A p \in 1..(n - 1) : Len(feed[p]) = PageSize} : n \in 1..MaxPages}

\* the position of the j-th item of page p in the feed
ItemIndex(p, j) == (p - 1) * PageSize + j

\* the answers of the status endpoint, by the position of the item
StatusesOf(n) ==
    IF n % 4 = 1 THEN <<[state |-> "success"]>>
    ELSE IF n % 4 = 2 THEN <<[state |-> "error"]>>
    ELSE IF n % 4 = 3 THEN <<[state |-> "queued"]>>
    ELSE <<>>

RawDeployments(feed) ==
    [p \in 1..Len(feed) |->
        [j \in 1..Len(feed[p]) |->
            [id |-> ItemIndex(p, j), sha |-> "sha", ref |-> "main",
             environment |-> "production",
             created_at |-> IsoString(feed[p][j], TRUE),
             statuses |-> StatusesOf(ItemIndex(p, j))]]]

RawPullRequests(feed) ==
    [p \in 1..Len(feed) |->
        [j \in 1..Len(feed[p]) |->
            [number |-> ItemIndex(p, j), title |-> "change",
             created_at |-> IsoString(timestamp(FetchPeriod.start_date) - 7200, TRUE),
             merged_at |-> IF feed[p][j] = 0 THEN None ELSE IsoString(feed[p][j], TRUE),
             commits |-> IF ItemIndex(p, j) % 2 = 1
                         THEN <<[date |-> IsoString(timestamp(FetchPeriod.start_date) - 3600,
                                                    TRUE)]>>
                         ELSE <<>>]]]

RawIncidents(feed) ==
    [p \in 1..Len(feed) |->
        [j \in 1..Len(feed[p]) |->
            [id |-> ItemIndex(p, j), name |-> "deploy broke checkout",
             status |-> "closed",
             severity |-> IF ItemIndex(p, j) % 2 = 1 THEN "sev1" ELSE "low",
             created_at |-> IsoString(feed[p][j], TRUE),
             resolved_at |-> IF ItemIndex(p, j) % 2 = 1
                             THEN IsoString(feed[p][j] + 7200, TRUE) ELSE None]]]

NoFault == [pages |-> {}, items |-> {}]

\* no fault, the lookup of one item failing, the request of the last page failing
ClientFaults ==
    {NoFault, [pages |-> {MaxPages}, items |-> {}]}
        \cup {[pages |-> {}, items |-> {n}] : n \in 1..(MaxPages * PageSize)}

InitClients ==
    /\ ApiIdle
    /\ GpIdle
    /\ StoreIdle
    /\ RunIdle
    /\ fn_pc = "call"
    /\ fn_result = None
    /\ \/ \E feed \in Feeds(FeedTimes), fault \in ClientFaults :
            fn_args = [fn |-> "get_deployments", pages |-> RawDeployments(feed),
                       period |-> FetchPeriod, fault |-> fault]
       \/ \E feed \in Feeds(FeedTimes \cup {0}), fault \in ClientFaults :
            fn_args = [fn |-> "get_pull_requests", pages |-> RawPullRequests(feed),
                       period |-> FetchPeriod, fault |-> fault]
       \/ \E feed \in Feeds(FeedTimes), fault \in ClientFaults :
            /\ fault.items = {}
            /\ fn_args = [fn |-> "get_incidents", pages |-> RawIncidents(feed),
                          period |-> FetchPeriod, fault |-> fault]

GetDeploymentsCall ==
    /\ fn_pc = "call"
    /\ fn_args.fn = "get_deployments"
    /\ fn_result' = get_deployments(fn_args.pages, fn_args.period, fn_args.fault)
    /\ fn_pc' = "done"
    /\ UNCHANGED fn_args
    /\ UNCHANGED <<gp_vars, store_vars, run_vars, api_vars>>

GetPullRequestsCall ==
    /\ fn_pc = "call"
    /\ fn_args.fn = "get_pull_requests"
    /\ fn_result' = get_pull_requests(fn_args.pages, fn_args.period, fn_args.fault)
    /\ fn_pc' = "done"
    /\ UNCHANGED fn_args
    /\ UNCHANGED <<gp_vars, store_vars, run_vars, api_vars>>

GetIncidentsCall ==
    /\ fn_pc = "call"
    /\ fn_args.fn = "get_incidents"
    /\ fn_result' = get_incidents(fn_args.pages, fn_args.period, fn_args.fault)
    /\ fn_pc' = "done"
    /\ UNCHANGED fn_args
    /\ UNCHANGED <<gp_vars, store_vars, run_vars, api_vars>>

NextClients ==
    \/ GetDeploymentsCall
    \/ GetPullRequestsCall
    \/ GetIncidentsCall

SpecClients == InitClients /\ [][NextClients]_vars

(***************************************************************************)
(* Specification of the source fetches over the repositories:              *)
(* fetch_github_deployments and fetch_github_pull_requests (tasks.py) and  *)
(* the two loops of backfill_period (backfill.py); every repository has    *)
(* its own feed and its own fault.                                         *)
(***************************************************************************)
\* the feeds of a repository: nothing, one item within the period, one
\* item after, one at the end and one at the start of it
RepoFeeds ==
    {<<<<>>>>,
     <<<<timestamp(FetchPeriod.start_date)>>>>,
     <<<<timestamp(FetchPeriod.end_date) + 1, timestamp(FetchPeriod.end_date)>>,
       <<timestamp(FetchPeriod.start_date)>>>>}

\* no fault, the request of the first page failing, the lookup of the
\* first item failing
RepoFaults == {NoFault, [pages |-> {1}, items |-> {}], [pages |-> {}, items |-> {1}]}

\* deployment ids are unique over all repositories, pull request numbers
\* count from 1 in every repository
IdOffset(repo) == (CHOOSE k \in 1..Len(Repos) : Repos[k] = repo) * MaxPages * PageSize

\* the pages of a repository, its items marked with its name
RepoDeployments(repo, feed) ==
    LET raw == RawDeployments(feed)
    IN  [p \in 1..Len(raw) |-> [j \in 1..Len(raw[p]) |->
            [raw[p][j] EXCEPT !.sha = "sha-" \o repo, !.id = @ + IdOffset(repo)]]]

RepoPullRequests(repo, feed) ==
    LET raw == RawPullRequests(feed)
    IN  [p \in 1..Len(raw) |-> [j \in 1..Len(raw[p]) |->
            [raw[p][j] EXCEPT !.title = "change in " \o repo]]]

\* what the client answers for the repositories, in the order of get_repos
DeploymentOutcomes(args) ==
    [k \in 1..Len(Repos) |->
        get_deployments(RepoDeployments(Repos[k], args.feeds[k]), args.period,
                        [args.faults[k] EXCEPT !.items = {n + IdOffset(Repos[k]) : n \in @}])]

PullRequestOutcomes(args) ==
    [k \in 1..Len(Repos) |->
        get_pull_requests(RepoPullRequests(Repos[k], args.feeds[k]), args.period,
                          args.faults[k])]

InitFetchTasks ==
    /\ ApiIdle
    /\ GpIdle
    /\ StoreIdle
    /\ RunIdle
    /\ fn_pc = "call"
    /\ fn_result = None
    /\ \E fn \in {"fetch_github_deployments", "fetch_github_pull_requests", "backfill_period"},
          feeds \in [1..Len(Repos) -> RepoFeeds], faults \in [1..Len(Repos) -> RepoFaults] :
            fn_args = [fn |-> fn, period |-> FetchPeriod, feeds |-> feeds, faults |-> faults]

\* tasks.py lines 61-87
FetchGithubDeploymentsCall ==
    /\ fn_pc = "call"
    /\ fn_args.fn = "fetch_github_deployments"
    /\ \E outcomes \in {DeploymentOutcomes(fn_args)} :
          fn_result' = [status |-> "returned",
                        value |-> DumpAll(GatherRepos(outcomes), DumpDeployment)]
    /\ fn_pc' = "done"
    /\ UNCHANGED fn_args
    /\ UNCHANGED <<gp_vars, store_vars, run_vars, api_vars>>

\* tasks.py lines 90-116
FetchGithubPullRequestsCall ==
    /\ fn_pc = "call"
    /\ fn_args.fn = "fetch_github_pull_requests"
    /\ \E outcomes \in {PullRequestOutcomes(fn_args)} :
          fn_result' = [status |-> "returned",
                        value |-> DumpAll(GatherRepos(outcomes), DumpPullRequest)]
    /\ fn_pc' = "done"
    /\ UNCHANGED fn_args
    /\ UNCHANGED <<gp_vars, store_vars, run_vars, api_vars>>

\* backfill.py lines 88-94 and 98-104: what one loop does at the upstream
\* and on the clock: for every repository the client call and, when that
\* returned, the sleep that follows it inside the try block
LoopEvents(call, outcomes) ==
    extend_all([k \in 1..Len(outcomes) |->
                   <<[op |-> call, repo |-> Repos[k]]>>
                       \o (IF outcomes[k].status = "returned"
                           THEN <<[op |-> "sleep", repo |-> Repos[k]]>> ELSE <<>>)])

\* backfill.py lines 86-105: all_deployments and all_prs after the two loops
BackfillLoopsCall ==
    /\ fn_pc = "call"
    /\ fn_args.fn = "backfill_period"
    /\ \E deployment_outcomes \in {DeploymentOutcomes(fn_args)},
          pr_outcomes \in {PullRequestOutcomes(fn_args)} :
          fn_result' = [status |-> "returned",
                        value |-> [deployments |-> GatherRepos(deployment_outcomes),
                                   pull_requests |-> GatherRepos(pr_outcomes),
                                   events |-> LoopEvents("get_deployments",
                                                         deployment_outcomes)
                                                  \o LoopEvents("get_pull_requests",
                                                                pr_outcomes)]]
    /\ fn_pc' = "done"
    /\ UNCHANGED fn_args
    /\ UNCHANGED <<gp_vars, store_vars, run_vars, api_vars>>

\* backfill.py lines 116-126: the session is opened and what the loops
\* gathered is dumped and upserted (no incident client here)
BackfillStoreCall ==
    /\ fn_pc = "done"
    /\ fn_args.fn = "backfill_period"
    /\ \E json \in {DumpData([deployments |-> fn_result.value.deployments,
                               pull_requests |-> fn_result.value.pull_requests,
                               incidents |-> <<>>])} :
          /\ session' = [open |-> TRUE, tables |-> StoreRaw(db, json, clock)]
          /\ fn_result' = [fn_result EXCEPT !.value =
                              @ @@ [dep_count |-> upsert_count(json.deployments),
                                    pr_count |-> upsert_count(json.pull_requests)]]
    /\ fn_pc' = "stored"
    /\ UNCHANGED <<fn_args, clock, db, calls, last_call>>
    /\ UNCHANGED <<gp_vars, run_vars, api_vars>>

NextFetchTasks ==
    \/ FetchGithubDeploymentsCall
    \/ FetchGithubPullRequestsCall
    \/ BackfillLoopsCall
    \/ BackfillStoreCall

SpecFetchTasks == InitFetchTasks /\ [][NextFetchTasks]_vars

(***************************************************************************)
(* Specification of the overall rating: a snapshot is created from metrics *)
(* whose four ratings are drawn from the four rating levels.               *)
(***************************************************************************)
Ratings == {"elite", "high", "medium", "low"}

\* metrics with the ratings df, lt, cfr, mttr
RatedMetrics(df, lt, cfr, mttr) ==
    [deployment_frequency |->
         [deployments_per_day |-> Ratio(1, 7), deployments_per_week |-> Ratio(7, 7),
          total_deployments |-> 1, rating |-> df],
     lead_time |->
         [average_hours |-> Ratio(3600, 3600), median_hours |-> Ratio(3600, 3600),
          p90_hours |-> Ratio(3600, 3600), rating |-> lt],
     change_failure_rate |->
         [percentage |-> Ratio(0, 1), failed_changes |-> 0, total_deployments |-> 1,
          rating |-> cfr],
     mttr |->
         [average_hours |-> Ratio(2, 1), median_hours |-> Ratio(2, 1), incidents |-> 1,
          rating |-> mttr],
     period |-> MetricsPeriod("weekly", Date(2024, 1, 8, 0), Date(2024, 1, 14, 86399)),
     generated_at |-> 0]

InitOverall ==
    /\ ApiIdle
    /\ GpIdle
    /\ StoreIdle
    /\ RunIdle
    /\ \E df \in Ratings, lt \in Ratings, cfr \in Ratings, mttr \in Ratings :
          fn_args = RatedMetrics(df, lt, cfr, mttr)
    /\ fn_pc = "call"
    /\ fn_result = None

\* create_snapshot on the metrics: the row that is added
CreateSnapshotCall ==
    /\ fn_pc = "call"
    /\ fn_result' = create_snapshot(<<>>, fn_args, fn_args.period, clock)[1]
    /\ fn_pc' = "done"
    /\ UNCHANGED fn_args
    /\ UNCHANGED <<gp_vars, store_vars, run_vars, api_vars>>

NextOverall == CreateSnapshotCall

SpecOverall == InitOverall /\ [][NextOverall]_vars

(***************************************************************************)
(* Specification of the backfill endpoints (api/routers/backfill.py): the  *)
(* server handles up to MaxConcurrent requests at a time on one event      *)
(* loop; a handler runs without interruption from one await to the next,   *)
(* and is suspended while its call of the Render API is in flight.         *)
(***************************************************************************)
\* the task runs Render is asked for
MaxRuns == 2

Requests == 1..MaxConcurrent

\* the bodies of the start requests: two months, one week
StartBodies == {body \in BackfillRanges : body.start_date.day \in {5, 8}}

\* the run_task calls in flight or answered and not yet taken up
PendingRunTasks ==
    {r \in Requests : requests[r].pc \in {"run_task", "run_task_returned", "run_task_raised"}}

Respond(r, handler, response) ==
    requests' = [requests EXCEPT ![r] = [handler |-> handler, pc |-> "done",
                                         local |-> None, response |-> response]]

InitTracker ==
    /\ GpIdle
    /\ FnIdle
    /\ StoreIdle
    /\ RunIdle
    /\ _current_run = None
    /\ render \in [configured : BOOLEAN, runs : {<<>>}]
    /\ requests = [r \in Requests |-> NoRequest]
    /\ triggered = {}

\* start_backfill, lines 156-199: up to the await of run_task
SB_Begin(r) ==
    /\ requests[r].pc \in {"idle", "done"}
    /\ \/ /\ _current_run # None
          /\ Respond(r, "start_backfill",
                     [status |-> "error", message |-> "A backfill job is already running",
                      run_id |-> _current_run.run_id])
       \/ /\ _current_run = None
          /\ ~render.configured
          /\ Respond(r, "start_backfill", [http |-> 503])
       \/ /\ _current_run = None
          /\ render.configured
          /\ Len(render.runs) + Cardinality(PendingRunTasks) < MaxRuns
          /\ \E body \in StartBodies :
                requests' = [requests EXCEPT ![r] =
                    [handler |-> "start_backfill", pc |-> "run_task",
                     local |-> [total_periods |->
                                   Len(generate_periods(body.start_date, body.end_date,
                                                        body.period_type))],
                     response |-> None]]
    /\ UNCHANGED <<_current_run, render, triggered>>

\* render_api.py lines 50-89: Render starts the task run, or the call fails
RenderRunTask(r) ==
    /\ requests[r].pc = "run_task"
    /\ \/ /\ render' = [render EXCEPT !.runs = Append(@, "pending")]
          /\ triggered' = triggered \cup {Len(render.runs) + 1}
          /\ requests' = [requests EXCEPT ![r].pc = "run_task_returned",
                                          ![r].local = [@ EXCEPT !.total_periods = @]
                                                       @@ [run_id |-> Len(render.runs) + 1]]
       \/ /\ requests' = [requests EXCEPT ![r].pc = "run_task_raised"]
          /\ UNCHANGED <<render, triggered>>
    /\ UNCHANGED _current_run

\* start_backfill, lines 201-249: after the await of run_task
SB_Resume(r) ==
    \/ /\ requests[r].pc = "run_task_returned"
       /\ _current_run' =
              [run_id |-> requests[r].local.run_id,
               started_at |-> isoformat(WallClock(clock)),
               total_periods |-> requests[r].local.total_periods,
               progress |-> "0/" \o ToString(requests[r].local.total_periods)]
       /\ Respond(r, "start_backfill",
                  [status |-> "started", run_id |-> requests[r].local.run_id,
                   total_periods |-> requests[r].local.total_periods])
       /\ UNCHANGED <<render, triggered>>
    \/ /\ requests[r].pc = "run_task_raised"
       /\ Respond(r, "start_backfill", [http |-> 502])
       /\ UNCHANGED <<_current_run, render, triggered>>

\* get_backfill_status, lines 83-104: up to the await of get_task_run
GS_Begin(r) ==
    /\ requests[r].pc \in {"idle", "done"}
    /\ IF _current_run = None
       THEN Respond(r, "get_backfill_status",
                    [running |-> FALSE, progress |-> None, error |-> None])
       ELSE IF ~render.configured
       THEN Respond(r, "get_backfill_status",
                    [running |-> FALSE, progress |-> None,
                     error |-> "Render API not configured"])
       ELSE requests' = [requests EXCEPT ![r] =
                [handler |-> "get_backfill_status", pc |-> "get_task_run",
                 local |-> [asked |-> _current_run.run_id], response |-> None]]
    /\ UNCHANGED <<_current_run, render, triggered>>

\* render_api.py lines 91-120: Render answers with the status of the run,
\* or the call fails
RenderGetTaskRun(r) ==
    /\ requests[r].pc = "get_task_run"
    /\ \/ requests' = [requests EXCEPT
                          ![r].pc = "get_task_run_returned",
                          ![r].local = @ @@ [status |-> render.runs[requests[r].local.asked]]]
       \/ requests' = [requests EXCEPT ![r].pc = "get_task_run_raised"]
    /\ UNCHANGED <<_current_run, render, triggered>>

\* get_backfill_status, lines 105-147: after the await of get_task_run;
\* _current_run is read again, and None.get or None["run_id"] raises
GS_Resume(r) ==
    \/ /\ requests[r].pc = "get_task_run_returned"
       /\ LET status == requests[r].local.status
          IN  IF status \in {"pending", "running"}
              THEN /\ IF _current_run = None
                      THEN Respond(r, "get_backfill_status", [http |-> 500])
                      ELSE Respond(r, "get_backfill_status",
                                   [running |-> TRUE, progress |-> _current_run.progress,
                                    error |-> None, run_id |-> _current_run.run_id,
                                    render_status |-> status])
                   /\ UNCHANGED <<_current_run, triggered>>
              ELSE /\ _current_run' = None
                   /\ triggered' = {}
                   /\ IF _current_run = None
                      THEN Respond(r, "get_backfill_status", [http |-> 500])
                      ELSE Respond(r, "get_backfill_status",
                                   [running |-> FALSE,
                                    progress |-> IF status = "succeeded" THEN "Complete"
                                                 ELSE None,
                                    error |-> IF status = "succeeded" THEN None
                                              ELSE "Workflow " \o status,
                                    run_id |-> _current_run.run_id,
                                    render_status |-> status])
       /\ UNCHANGED render
    \/ /\ requests[r].pc = "get_task_run_raised"
       /\ Respond(r, "get_backfill_status",
                  [running |-> _current_run # None,
                   progress |-> IF _current_run # None THEN _current_run.progress ELSE None,
                   error |-> "RenderAPIError"])
       /\ UNCHANGED <<_current_run, render, triggered>>

\* stop_backfill, lines 252-270
StopBackfill(r) ==
    /\ requests[r].pc \in {"idle", "done"}
    /\ IF _current_run = None
       THEN /\ Respond(r, "stop_backfill", [status |-> "not_running"])
            /\ UNCHANGED <<_current_run, triggered>>
       ELSE /\ Respond(r, "stop_backfill",
                       [status |-> "cleared", run_id |-> _current_run.run_id])
            /\ _current_run' = None
            /\ triggered' = {}
    /\ UNCHANGED render

\* the task run goes on at Render, whatever the tracking says
RenderAdvance ==
    /\ \E n \in 1..Len(render.runs) :
          \/ /\ render.runs[n] = "pending"
             /\ render' = [render EXCEPT !.runs[n] = "running"]
          \/ /\ render.runs[n] = "running"
             /\ \E status \in {"succeeded", "failed"} :
                   render' = [render EXCEPT !.runs[n] = status]
    /\ UNCHANGED <<_current_run, requests, triggered>>

NextTracker ==
    \/ \E r \in Requests : SB_Begin(r) /\ UNCHANGED <<gp_vars, fn_vars, store_vars, run_vars>>
    \/ \E r \in Requests : RenderRunTask(r) /\ UNCHANGED <<gp_vars, fn_vars, store_vars, run_vars>>
    \/ \E r \in Requests : SB_Resume(r) /\ UNCHANGED <<gp_vars, fn_vars, store_vars, run_vars>>
    \/ \E r \in Requests : GS_Begin(r) /\ UNCHANGED <<gp_vars, fn_vars, store_vars, run_vars>>
    \/ \E r \in Requests : RenderGetTaskRun(r) /\ UNCHANGED <<gp_vars, fn_vars, store_vars, run_vars>>
    \/ \E r \in Requests : GS_Resume(r) /\ UNCHANGED <<gp_vars, fn_vars, store_vars, run_vars>>
    \/ \E r \in Requests : StopBackfill(r) /\ UNCHANGED <<gp_vars, fn_vars, store_vars, run_vars>>
    \/ (RenderAdvance /\ UNCHANGED <<gp_vars, fn_vars, store_vars, run_vars>>)

SpecTracker == InitTracker /\ [][NextTracker]_vars

(***************************************************************************)
(* Properties of the orchestrators                                         *)
(***************************************************************************)
RunEnded(kind) == pc = "done" /\ run.kind = kind

BackfillKinds == {"run_backfill_pipeline", "run_backfill"}

\* the entry at position k of a result list belongs to the k-th period
EntryInOrder(rs, k) ==
    /\ rs[k].period_start = IsoString(timestamp(run.periods[k].start_date), FALSE)
    /\ rs[k].period_end = IsoString(timestamp(run.periods[k].end_date), FALSE)
    /\ rs[k].progress = ToString(k) \o "/" \o ToString(Len(run.periods))

\* C1: run_backfill_pipeline over N periods returns N entries in period
\* order whichever periods fail; the entry of a failed period carries the
\* error text, the loop goes on with the next period after a failure, and
\* total_periods = N = successful + failed.
C1_BackfillPipelineIsolatesFailures ==
    /\ [](RunEnded("run_backfill_pipeline") =>
            /\ outcome.status = "returned"
            /\ outcome.value.total_periods = Len(run.periods)
            /\ outcome.value.results = results
            /\ Len(results) = Len(run.periods)
            /\ \A k \in 1..Len(results) : EntryInOrder(results, k)
            /\ outcome.value.successful + outcome.value.failed = Len(run.periods)
            /\ outcome.value.failed =
                  Cardinality({k \in 1..Len(results) : "error" \in DOMAIN results[k]}))
    /\ [][(run.kind = "run_backfill_pipeline" /\ pc = "bp_raised" /\ pc' # pc) =>
            /\ pc' \in {"loop", "delay"}
            /\ loop_i' = loop_i + 1
            /\ Len(results') = Len(results) + 1
            /\ SubSeq(results', 1, Len(results)) = results
            /\ "error" \in DOMAIN results'[Len(results')]
            /\ results'[Len(results')].error = frame.error
            /\ frame.error # ""]_vars
    /\ [][(run.kind = "run_backfill_pipeline" /\ pc = "bp_returned" /\ pc' # pc) =>
            /\ Len(results') = Len(results) + 1
            /\ "error" \notin DOMAIN results'[Len(results')]]_vars

C1_Witness ==
    /\ RunEnded("run_backfill_pipeline")
    /\ Len(run.periods) = 3
    /\ "error" \notin DOMAIN results[1]
    /\ "error" \in DOMAIN results[2]
    /\ results[2].error = PersistenceError
    /\ "error" \notin DOMAIN results[3]

\* C2: run_backfill yields one result per generated period, in period
\* order, and does not raise when backfill_period fails for a period.
C2_RunBackfillNeverRaises ==
    RunEnded("run_backfill") =>
        /\ outcome.status = "returned"
        /\ Len(results) = Len(run.periods)
        /\ \A k \in 1..Len(results) : EntryInOrder(results, k)

\* C3: a run of run_metrics_pipeline that ends in an error has committed
\* neither raw events nor a snapshot.
C3_FailedPipelineCommitsNothing ==
    (RunEnded("run_metrics_pipeline") /\ outcome.status = "raised") => db = db0

\* the rows of a table whose column col has the value v
Stored(table, col, v) == \E k \in 1..Len(table) : table[k][col] = v

\* every write of the period being processed is in the tables
AllWritesIn(tables) ==
    /\ \A k \in 1..Len(frame.data.deployments) :
          Stored(tables.deployments, "github_deployment_id", frame.data.deployments[k].id)
    /\ \A k \in 1..Len(frame.data.pull_requests) :
          Stored(tables.pull_requests, "github_pr_number", frame.data.pull_requests[k].number)
    /\ \A k \in 1..Len(frame.data.incidents) :
          Stored(tables.incidents, "incident_io_id", frame.data.incidents[k].id)
    /\ Len(tables.snapshots) = Len(db0.snapshots) + 1
    /\ tables.snapshots[Len(tables.snapshots)].id = frame.snapshot_id
    /\ tables.snapshots[Len(tables.snapshots)].period_start = period.start_date
    /\ tables.snapshots[Len(tables.snapshots)].period_type = period.type

\* C4: in a backfill nothing of a period is durable before its commit, the
\* commit makes all of its writes durable at once, a failed period leaves
\* the database as it was, and a period writes only after the periods
\* before it have ended.
C4_PeriodCommittedAsOneUnit ==
    run.kind \in BackfillKinds =>
        /\ pc \in {"bp_clients", "bp_fetch", "bp_store", "bp_snapshot", "bp_commit",
                   "bp_raised"} => db = db0
        /\ pc = "bp_returned" => AllWritesIn(db)
        /\ session.open => (pc \in {"bp_snapshot", "bp_commit"} /\ Len(results) = loop_i)
        /\ pc \in {"loop", "done"} => (~session.open /\ Len(results) = loop_i)

C4_Witness ==
    /\ run.kind \in BackfillKinds
    /\ pc = "bp_returned"
    /\ loop_i = 1
    /\ "error" \in DOMAIN results[1]
    /\ frame.dep_count = 2
    /\ frame.inc_count = 1
    /\ Len(db.deployments) = 2

IsPrefix(a, b) == Len(a) <= Len(b) /\ SubSeq(b, 1, Len(a)) = a

\* C8: create_snapshot adds one row and changes no other, committed
\* snapshots are never changed or removed, and the number of snapshot rows
\* is the number of create_snapshot calls that were committed.
C8_SnapshotsAppendOnly ==
    /\ [](Len(db.snapshots) = snapshots_committed)
    /\ [][IsPrefix(db.snapshots, db'.snapshots)]_vars
    /\ [][(pc = "bp_snapshot" /\ pc' = "bp_commit") =>
            /\ Len(session'.tables.snapshots) = Len(session.tables.snapshots) + 1
            /\ IsPrefix(session.tables.snapshots, session'.tables.snapshots)]_vars
    /\ [][(pc = "mp_store_snapshot" /\ pc' = "mp_report") =>
            Len(db'.snapshots) = Len(db.snapshots) + 1]_vars

C8_Witness ==
    /\ Len(db.snapshots) = 2
    /\ snapshots_committed = 2
    /\ db.snapshots[1].period_type = db.snapshots[2].period_type
    /\ db.snapshots[1].period_start = db.snapshots[2].period_start

(***************************************************************************)
(* Properties of the upserts                                               *)
(***************************************************************************)
RawTables == {"deployments", "pull_requests", "incidents"}

KeyColumn(t) ==
    CASE t = "deployments" -> "github_deployment_id"
      [] t = "pull_requests" -> "github_pr_number"
      [] t = "incidents" -> "incident_io_id"

\* a repository call is made in this step
CallStep == calls' = calls + 1
\* the call made in this step repeats the call before it, with the same records
RepeatedCallStep == CallStep /\ last_call'.times >= 2

\* a table without the column fetched_at
WithoutFetchedAt(table) ==
    [i \in 1..Len(table) |->
        [f \in (DOMAIN table[i]) \ {"fetched_at"} |-> table[i][f]]]

\* C5 as stated: a second upsert with the same candidate list leaves every
\* stored field of every row as the first one left it.
C5_SecondUpsertChangesNothing ==
    [][RepeatedCallStep => session'.tables = session.tables]_vars

\* C5 amended: a second upsert with the same candidate list adds no row and
\* leaves every stored field other than fetched_at as the first one left it.
C5_SecondUpsertChangesOnlyFetchedAt ==
    [][RepeatedCallStep =>
          \A t \in RawTables :
              WithoutFetchedAt(session'.tables[t]) = WithoutFetchedAt(session.tables[t])]_vars

C5_Witness ==
    /\ last_call.times >= 2
    /\ last_call.op = "upsert_deployments"
    /\ Len(last_call.records) = 2
    /\ Len(session.tables.deployments) = 2
    /\ \E i \in 1..Len(session.tables.deployments) :
          session.tables.deployments[i].fetched_at = 1

\* the instant a candidate carries under an optional timestamp key
ExpectedInstant(d, key) ==
    IF key \in DOMAIN d /\ d[key].kind = "str" THEN Datetime(d[key].t) ELSE None
\* the value a candidate carries under an optional key
ExpectedValue(d, key, default) == IF key \in DOMAIN d THEN d[key] ELSE default

\* the last record of a candidate list that carries the external id key
LastWithKey(records, idkey, key) ==
    records[CHOOSE i \in 1..Len(records) :
               /\ records[i][idkey] = key
               /\ \A j \in (i + 1)..Len(records) : records[j][idkey] # key]

UniqueKeys(tables) ==
    \A t \in RawTables : \A i \in 1..Len(tables[t]) : \A j \in 1..Len(tables[t]) :
        tables[t][i][KeyColumn(t)] = tables[t][j][KeyColumn(t)] => i = j

MutableFieldsFrom(t, row, d) ==
    CASE t = "deployments" -> row.status = d.status
      [] t = "pull_requests" ->
            /\ row.title = d.title
            /\ row.merged_at = ExpectedInstant(d, "merged_at")
            /\ row.first_commit_at = ExpectedInstant(d, "first_commit_at")
      [] t = "incidents" ->
            /\ row.name = d.name
            /\ row.status = d.status
            /\ row.severity = d.severity
            /\ row.resolved_at = ExpectedInstant(d, "resolved_at")
            /\ row.impact_started_at = ExpectedInstant(d, "impact_started_at")
            /\ row.duration_seconds = ExpectedValue(d, "duration_seconds", None)
            /\ row.time_to_resolve_hours = ExpectedValue(d, "time_to_resolve_hours", None)
            /\ row.is_change_related = ExpectedValue(d, "is_change_related", TRUE)
            /\ row.is_user_impacting = ExpectedValue(d, "is_user_impacting", TRUE)

CandidateKey(t) == IF t = "pull_requests" THEN "number" ELSE "id"

TableOfCall(op) ==
    CASE op = "upsert_deployments" -> "deployments"
      [] op = "upsert_pull_requests" -> "pull_requests"
      [] op = "upsert_incidents" -> "incidents"

\* C6: the store never holds two records with one external id, and after an
\* upsert the one record of each upserted id carries the mutable fields of
\* the latest candidate with that id.
C6_OneRecordWithLatestValues ==
    /\ [](UniqueKeys(session.tables))
    /\ [][CallStep =>
            LET t == TableOfCall(last_call'.op)
                records == last_call'.records
                table == session'.tables[t]
            IN  \A k \in 1..Len(records) :
                    LET key == records[k][CandidateKey(t)]
                        hit == RowsWithKey(table, KeyColumn(t), key)
                    IN  /\ Cardinality(hit) = 1
                        /\ \A i \in hit :
                              MutableFieldsFrom(t, table[i],
                                                LastWithKey(records, CandidateKey(t), key))]_vars

C6_Witness ==
    /\ last_call.op = "upsert_deployments"
    /\ Len(session.tables.deployments) = 1
    /\ session.tables.deployments[1].sha = "sha-a"
    /\ session.tables.deployments[1].status = "success"
    /\ calls >= 2

ImmutableColumns(t) ==
    CASE t = "deployments" ->
            {"id", "github_deployment_id", "sha", "ref", "environment", "created_at"}
      [] t = "pull_requests" -> {"id", "github_pr_number", "created_at"}
      [] t = "incidents" -> {"id", "incident_io_id", "created_at"}

\* C7: an upsert leaves the identity fields of every existing record as its
\* first insert set them: external id and created_at, and a deployment's
\* sha, ref and environment.
C7_IdentityFieldsKept ==
    [][CallStep =>
          \A t \in RawTables : \A i \in 1..Len(session.tables[t]) :
              /\ i <= Len(session'.tables[t])
              /\ \A c \in ImmutableColumns(t) :
                    session'.tables[t][i][c] = session.tables[t][i][c]]_vars

C7_Witness ==
    /\ last_call.op = "upsert_incidents"
    /\ last_call.records = <<IncidentDict("inc-1", 2)>>
    /\ Len(session.tables.incidents) = 1
    /\ session.tables.incidents[1].created_at = Datetime(1)
    /\ session.tables.incidents[1].name = "name-b"

(***************************************************************************)
(* Properties of generate_periods                                          *)
(***************************************************************************)
\* the last second of the day of d, as an instant
LastSecondOfDay(d) == (toordinal(d) + 1) * SecondsPerDay - 1
\* midnight of the day of d, as an instant
MidnightOfDay(d) == toordinal(d) * SecondsPerDay

GpDone == gp_pc = "done"

\* C9: for start <= end and both period types the returned periods are
\* pairwise non-overlapping, strictly increasing in start time, each has
\* start < end, and no period ends after the last second of end's day.
C9_PeriodsOrderedDisjointBounded ==
    (GpDone /\ timestamp(gp_args.start_date) <= timestamp(gp_args.end_date)) =>
        /\ \A i \in 1..Len(gp_result) :
              /\ timestamp(gp_result[i].start_date) < timestamp(gp_result[i].end_date)
              /\ timestamp(gp_result[i].end_date) <= LastSecondOfDay(gp_args.end_date)
        /\ \A i \in 1..Len(gp_result) : \A j \in 1..Len(gp_result) :
              i < j =>
                /\ timestamp(gp_result[i].start_date) < timestamp(gp_result[j].start_date)
                /\ timestamp(gp_result[i].end_date) < timestamp(gp_result[j].start_date)

C9_Witness ==
    /\ GpDone
    /\ gp_args.period_type = "monthly"
    /\ timestamp(gp_args.start_date) <= timestamp(gp_args.end_date)
    /\ Len(gp_result) >= 2

\* C10: weekly periods start at 00:00:00 of a Monday, the first one on the
\* Monday on or before start, each spans 7 days minus one second and
\* consecutive starts are 7 days apart; 2024-01-01..2024-01-31 starts at
\* 2024-01-01 and does not end after 2024-01-31T23:59:59.
C10_WeeklyAlignment ==
    (GpDone /\ gp_args.period_type = "weekly") =>
        /\ \A i \in 1..Len(gp_result) :
              /\ gp_result[i].type = "weekly"
              /\ weekday(gp_result[i].start_date) = 0
              /\ gp_result[i].start_date.sec = 0
              /\ timestamp(gp_result[i].end_date) - timestamp(gp_result[i].start_date)
                     = 7 * SecondsPerDay - 1
        /\ \A i \in 1..(Len(gp_result) - 1) :
              timestamp(gp_result[i + 1].start_date) - timestamp(gp_result[i].start_date)
                 = 7 * SecondsPerDay
        /\ Len(gp_result) > 0 =>
              /\ timestamp(gp_result[1].start_date) <= MidnightOfDay(gp_args.start_date)
              /\ MidnightOfDay(gp_args.start_date)
                     < timestamp(gp_result[1].start_date) + 7 * SecondsPerDay
        /\ ( /\ [gp_args.start_date EXCEPT !.sec = 0] = Date(2024, 1, 1, 0)
             /\ [gp_args.end_date EXCEPT !.sec = 0] = Date(2024, 1, 31, 0) ) =>
              /\ Len(gp_result) = 4
              /\ gp_result[1].start_date = Date(2024, 1, 1, 0)
              /\ gp_result[4].end_date = Date(2024, 1, 28, 86399)

C10_Witness ==
    /\ GpDone
    /\ gp_args.period_type = "weekly"
    /\ weekday(gp_args.start_date) = 3
    /\ Len(gp_result) >= 3

\* the calendar month number k - 1 months after the month of d
MonthAfter(d, k) ==
    LET idx == d.year * 12 + (d.month - 1) + (k - 1)
    IN  [year |-> idx \div 12, month |-> (idx % 12) + 1]

\* C11: monthly periods start on day 1 at 00:00:00 and end at the last
\* second of the same month, the first one is the month of start and each
\* next one is the following month (January of the next year after
\* December); 2024-02-01..2024-02-29 gives the single period of the 29 days
\* of February 2024.
C11_MonthlyAlignment ==
    (GpDone /\ gp_args.period_type = "monthly") =>
        /\ \A i \in 1..Len(gp_result) :
              LET p == gp_result[i]
                  m == MonthAfter(gp_args.start_date, i)
              IN  /\ p.type = "monthly"
                  /\ p.start_date = Date(m.year, m.month, 1, 0)
                  /\ p.end_date.year = m.year
                  /\ p.end_date.month = m.month
                  /\ p.end_date.day = DaysInMonth(m.year, m.month)
                  /\ p.end_date.day \in {28, 29, 30, 31}
                  /\ p.end_date.sec = 23 * 3600 + 59 * 60 + 59
                  /\ (m.month = 2 /\ m.year = 2024) => p.end_date.day = 29
                  /\ m.month \in {12, 1, 3} => p.end_date.day = 31
        /\ ( /\ [gp_args.start_date EXCEPT !.sec = 0] = Date(2024, 2, 1, 0)
             /\ [gp_args.end_date EXCEPT !.sec = 0] = Date(2024, 2, 29, 0) ) =>
              gp_result = <<MetricsPeriod("monthly", Date(2024, 2, 1, 0),
                                          Date(2024, 2, 29, 86399))>>

C11_Witness ==
    /\ GpDone
    /\ gp_args.period_type = "monthly"
    /\ gp_args.start_date.day = 25
    /\ Len(gp_result) = 3
    /\ gp_result[1].start_date = Date(2023, 12, 1, 0)
    /\ gp_result[3].end_date = Date(2024, 2, 29, 86399)

\* the k-th aligned period of the call: the k-th week from the Monday on or
\* before start, or the k-th month from the month of start, as instants
AlignedStart(k) ==
    IF gp_args.period_type = "weekly"
    THEN MidnightOfDay(gp_args.start_date)
            - weekday(gp_args.start_date) * SecondsPerDay + (k - 1) * 7 * SecondsPerDay
    ELSE LET m == MonthAfter(gp_args.start_date, k)
         IN  timestamp(Date(m.year, m.month, 1, 0))

AlignedEnd(k) == AlignedStart(k + 1) - 1

\* C12: generate_periods ends for every input, and returns exactly the
\* consecutive aligned periods from the first aligned start whose end is
\* not after the last second of end's day: the period after the last one
\* returned would end after it, nothing shorter than a full period is
\* returned, and the result is empty when no full period fits.  The loop
\* ends because every iteration moves current forward by a full period
\* and current never passes the instant after end.
C12_ExactlyTheFullPeriods ==
    /\ [](gp_pc = "loop" =>
            /\ timestamp(gp_current) = AlignedStart(Len(gp_result) + 1)
            /\ Len(gp_result) >= 1 =>
                  timestamp(gp_current) <= LastSecondOfDay(gp_args.end_date) + 1)
    /\ [][(gp_pc = "loop" /\ gp_pc' = "loop") =>
            /\ Len(gp_result') = Len(gp_result) + 1
            /\ timestamp(gp_current') >= timestamp(gp_current) + 7 * SecondsPerDay]_vars
    /\ [][gp_pc = "loop" => gp_pc' \in {"loop", "done"}]_vars
    /\ [](GpDone =>
            LET n == Len(gp_result)
                end == LastSecondOfDay(gp_args.end_date)
            IN  /\ \A k \in 1..n :
                      /\ timestamp(gp_result[k].start_date) = AlignedStart(k)
                      /\ timestamp(gp_result[k].end_date) = AlignedEnd(k)
                      /\ AlignedEnd(k) <= end
                /\ AlignedEnd(n + 1) > end
                /\ AlignedEnd(1) > end => gp_result = <<>>
                /\ gp_result = generate_periods(gp_args.start_date, gp_args.end_date,
                                                gp_args.period_type))

C12_Witness ==
    /\ GpDone
    /\ Len(gp_result) >= 1
    /\ AlignedStart(Len(gp_result) + 1) < LastSecondOfDay(gp_args.end_date)
    /\ AlignedEnd(Len(gp_result) + 1) > LastSecondOfDay(gp_args.end_date)

CalcDone == fn_pc = "done" /\ Len(fn_result) >= 1

\* C14 as stated: two calls of calculate_dora_metrics with identical
\* arguments return results that are equal in every field.
C14_RepeatedCallIdentical ==
    \A i \in 1..Len(fn_result) : \A j \in 1..Len(fn_result) : fn_result[i] = fn_result[j]

\* C14: two calls of calculate_dora_metrics with identical arguments return
\* results that are equal in every field other than generated_at, which is
\* the instant of each call.
C14_RepeatedCallIdenticalButGeneratedAt ==
    /\ \A i \in 1..Len(fn_result) : \A j \in 1..Len(fn_result) :
          /\ DOMAIN fn_result[i] = DOMAIN fn_result[j]
          /\ \A f \in DOMAIN fn_result[i] \ {"generated_at"} :
                fn_result[i][f] = fn_result[j][f]
          /\ i <= j => fn_result[i].generated_at <= fn_result[j].generated_at
    /\ \A i \in 1..Len(fn_result) : fn_result[i].generated_at <= clock

C14_Witness ==
    /\ Len(fn_result) = 2
    /\ fn_result[1].generated_at # fn_result[2].generated_at
    /\ fn_result[1].deployment_frequency.total_deployments = 7
    /\ fn_result[1].mttr.incidents = 2

\* the successful deployments, the change-related incidents and the
\* change-related incidents with a resolution time of the arguments
SuccessIndexes ==
    {k \in 1..Len(fn_args.data.deployments) : fn_args.data.deployments[k].status = "success"}
ChangeIndexes ==
    {k \in 1..Len(fn_args.data.incidents) : fn_args.data.incidents[k].is_change_related}
ResolvedIndexes ==
    {k \in ChangeIndexes : fn_args.data.incidents[k].time_to_resolve_hours # None}
MergedIndexes ==
    {k \in 1..Len(fn_args.data.pull_requests) : fn_args.data.pull_requests[k].merged_at # None}

\* the number of whole days from the start to the end of the period
PeriodDays ==
    CHOOSE k \in (0 - 2)..61 :
        /\ k * SecondsPerDay <=
              timestamp(fn_args.period.end_date) - timestamp(fn_args.period.start_date)
        /\ timestamp(fn_args.period.end_date) - timestamp(fn_args.period.start_date)
              < (k + 1) * SecondsPerDay

\* C15: total_deployments counts the deployments with status success and no
\* other, deployments_per_day is that count over max(period_days, 1) and
\* deployments_per_week is 7 times deployments_per_day, also for a period
\* of less than a day.
C15_DeploymentFrequency ==
    CalcDone =>
        \A i \in 1..Len(fn_result) :
            LET df == fn_result[i].deployment_frequency
                days == IF PeriodDays >= 1 THEN PeriodDays ELSE 1
            IN  /\ df.total_deployments = Cardinality(SuccessIndexes)
                /\ df.deployments_per_day.d > 0
                /\ df.deployments_per_day.n * days
                      = Cardinality(SuccessIndexes) * df.deployments_per_day.d
                /\ df.deployments_per_week.d > 0
                /\ df.deployments_per_week.n * df.deployments_per_day.d
                      = 7 * df.deployments_per_day.n * df.deployments_per_week.d

C15_Witness ==
    /\ CalcDone
    /\ PeriodDays = 0
    /\ Len(fn_args.data.deployments) = 5
    /\ Cardinality(SuccessIndexes) = 2
    /\ fn_result[1].deployment_frequency.deployments_per_week = Ratio(14, 1)

RatingRank(r) == CHOOSE k \in 1..4 : <<"low", "medium", "high", "elite">>[k] = r

\* rates to compare a result with: n deployments in d days
RateGrid == {Ratio(n, d) : n \in {0, 1, 2, 7}, d \in {1, 7, 29, 30, 31}}

\* C16: the deployment-frequency rating is elite from 1 per day, high from
\* 1/7 per day, medium from 1/30 per day and low below, the thresholds
\* included, and a higher rate never has a worse rating.
C16_FrequencyRating ==
    CalcDone =>
        LET df == fn_result[1].deployment_frequency
            n == df.deployments_per_day.n
            d == df.deployments_per_day.d
        IN  /\ df.rating \in {"elite", "high", "medium", "low"}
            /\ df.rating = "elite" <=> n >= d
            /\ df.rating = "high" <=> (n < d /\ 7 * n >= d)
            /\ df.rating = "medium" <=> (7 * n < d /\ 30 * n >= d)
            /\ df.rating = "low" <=> 30 * n < d
            /\ n = 0 => df.rating = "low"
            /\ \A q \in RateGrid :
                  LET rq == _get_deployment_frequency_rating(q)
                  IN  /\ q.n * d <= n * q.d => RatingRank(rq) <= RatingRank(df.rating)
                      /\ q.n * d >= n * q.d => RatingRank(rq) >= RatingRank(df.rating)

C16_Witness ==
    /\ CalcDone
    /\ fn_result[1].deployment_frequency.deployments_per_day = Ratio(1, 7)
    /\ fn_result[1].deployment_frequency.rating = "high"

\* the lead time in seconds of the pull request at index k
LeadOf(k) ==
    LET pr == fn_args.data.pull_requests[k]
    IN  IF pr.first_commit_at # None THEN pr.merged_at.t - pr.first_commit_at.t
        ELSE pr.merged_at.t - pr.created_at.t

RECURSIVE SumOver(_, _)
SumOver(S, f) ==
    IF S = {} THEN 0 ELSE LET k == CHOOSE x \in S : TRUE IN f[k] + SumOver(S \ {k}, f)

\* the value at position pos (from 1) when the values f[k], k in S, are put
\* in ascending order
Ranked(S, f, pos) ==
    CHOOSE v \in {f[k] : k \in S} :
        /\ Cardinality({k \in S : f[k] < v}) < pos
        /\ pos <= Cardinality({k \in S : f[k] <= v})

\* twice the median of the values f[k], k in S, S not empty
TwiceMedian(S, f) ==
    LET n == Cardinality(S)
    IN  IF n % 2 = 1 THEN 2 * Ranked(S, f, (n + 1) \div 2)
        ELSE Ranked(S, f, n \div 2) + Ranked(S, f, n \div 2 + 1)

\* the rating of a median of m2 / (2 * unit) hours under the thresholds
\* < 1 h, < 24 h, < 168 h
StrictRating(m2, unit) ==
    IF m2 < 2 * unit THEN "elite"
    ELSE IF m2 < 24 * 2 * unit THEN "high"
    ELSE IF m2 < 168 * 2 * unit THEN "medium"
    ELSE "low"

\* C17: the lead time is taken over the merged pull requests only, each
\* counted from its first commit when it has one and from its creation
\* otherwise; without a merged pull request average, median and p90 are 0
\* and the rating is low; otherwise the rating is that of the median:
\* elite below 1 h, high below 24 h, medium below 168 h, low from 168 h.
\* (A result n / d hours has d a multiple of 3600: it is a number of
\* seconds over 3600.)
C17_LeadTime ==
    CalcDone =>
        LET lt == fn_result[1].lead_time
            lead == [k \in MergedIndexes |-> LeadOf(k)]
        IN  IF MergedIndexes = {}
            THEN lt = [average_hours |-> Ratio(0, 1), median_hours |-> Ratio(0, 1),
                       p90_hours |-> Ratio(0, 1), rating |-> "low"]
            ELSE /\ lt.average_hours.d > 0
                 /\ lt.average_hours.d % 3600 = 0
                 /\ lt.average_hours.n * Cardinality(MergedIndexes)
                       = SumOver(MergedIndexes, lead) * (lt.average_hours.d \div 3600)
                 /\ lt.median_hours.d > 0
                 /\ lt.median_hours.d % 3600 = 0
                 /\ lt.median_hours.n * 2
                       = TwiceMedian(MergedIndexes, lead) * (lt.median_hours.d \div 3600)
                 /\ lt.rating = StrictRating(TwiceMedian(MergedIndexes, lead), 3600)

C17_Witness ==
    /\ CalcDone
    /\ fn_args.data.pull_requests =
          <<CalcPullRequest(After(0 - 23 * 3600), After(3600)),
            CalcPullRequest(After(0 - 7200), None),
            CalcPullRequest(None, After(3600))>>
    /\ fn_result[1].lead_time.median_hours = Ratio(90000, 7200)
    /\ fn_result[1].lead_time.rating = "high"

\* C18: the change failure rate is 100 times the change-related incidents
\* over the successful deployments, rated elite up to 5, high up to 10,
\* medium up to 15 and low above, the thresholds included; without a
\* successful deployment it is 0 and rated elite whatever the incidents.
C18_ChangeFailureRate ==
    CalcDone =>
        LET cfr == fn_result[1].change_failure_rate
            succeeded == Cardinality(SuccessIndexes)
            failed == Cardinality(ChangeIndexes)
        IN  /\ cfr.percentage.d > 0
            /\ succeeded = 0 => (cfr.percentage.n = 0 /\ cfr.rating = "elite")
            /\ succeeded > 0 =>
                  /\ cfr.percentage.n * succeeded = 100 * failed * cfr.percentage.d
                  /\ cfr.rating = "elite" <=> 100 * failed <= 5 * succeeded
                  /\ cfr.rating = "high" <=>
                        (100 * failed > 5 * succeeded /\ 100 * failed <= 10 * succeeded)
                  /\ cfr.rating = "medium" <=>
                        (100 * failed > 10 * succeeded /\ 100 * failed <= 15 * succeeded)
                  /\ cfr.rating = "low" <=> 100 * failed > 15 * succeeded

C18_Witness ==
    /\ CalcDone
    /\ Cardinality(SuccessIndexes) = 20
    /\ Cardinality(ChangeIndexes) = 3
    /\ Len(fn_args.data.incidents) = 4
    /\ fn_result[1].change_failure_rate.rating = "medium"

\* C19: failed_changes is the number of change-related incidents and
\* total_deployments the number of successful deployments, for every input.
C19_FailedChangesIsIncidentCount ==
    CalcDone =>
        /\ fn_result[1].change_failure_rate.failed_changes = Cardinality(ChangeIndexes)
        /\ fn_result[1].change_failure_rate.total_deployments = Cardinality(SuccessIndexes)

\* C20: average and median of the MTTR are taken over the resolution hours
\* of the change-related incidents that have one; when there is none,
\* average, median and incidents are 0 and the rating is elite.
C20_MTTR ==
    CalcDone =>
        LET mttr == fn_result[1].mttr
            hours == [k \in ResolvedIndexes |-> fn_args.data.incidents[k].time_to_resolve_hours.v]
        IN  IF ResolvedIndexes = {}
            THEN mttr = [average_hours |-> Ratio(0, 1), median_hours |-> Ratio(0, 1),
                         incidents |-> 0, rating |-> "elite"]
            ELSE /\ mttr.average_hours.d > 0
                 /\ mttr.average_hours.n * Cardinality(ResolvedIndexes)
                       = SumOver(ResolvedIndexes, hours) * mttr.average_hours.d
                 /\ mttr.median_hours.d > 0
                 /\ mttr.median_hours.n * 2
                       = TwiceMedian(ResolvedIndexes, hours) * mttr.median_hours.d

C20_Witness ==
    /\ CalcDone
    /\ fn_args.data.incidents =
          <<CalcIncident(1, FALSE, Float(168)), CalcIncident(1, TRUE, None),
            CalcIncident(1, TRUE, Float(24))>>
    /\ fn_result[1].mttr.average_hours = Ratio(24, 1)
    /\ fn_result[1].mttr.median_hours = Ratio(24, 1)

\* the four ratings of the metrics a snapshot was created from
FourRatings ==
    <<fn_args.deployment_frequency.rating, fn_args.lead_time.rating,
      fn_args.change_failure_rate.rating, fn_args.mttr.rating>>

\* C21: the overall rating of a snapshot is the bucket of the mean of the
\* four ratings taken as low = 1, medium = 2, high = 3, elite = 4: elite
\* from 3.5, high from 2.5, medium from 1.5, low below; it does not depend
\* on which metric has which rating and is neither worse than the worst
\* nor better than the best of the four.
C21_OverallRating ==
    (fn_pc = "done" /\ "overall_rating" \in DOMAIN fn_result) =>
        LET r == FourRatings
            sum == RatingRank(r[1]) + RatingRank(r[2]) + RatingRank(r[3]) + RatingRank(r[4])
            overall == fn_result.overall_rating
        IN  /\ overall = "elite" <=> 10 * sum >= 35 * 4
            /\ overall = "high" <=> (10 * sum < 35 * 4 /\ 10 * sum >= 25 * 4)
            /\ overall = "medium" <=> (10 * sum < 25 * 4 /\ 10 * sum >= 15 * 4)
            /\ overall = "low" <=> 10 * sum < 15 * 4
            /\ \A perm \in [1..4 -> 1..4] :
                  (\A a \in 1..4 : \E b \in 1..4 : perm[b] = a) =>
                      get_overall_rating(RatedMetrics(r[perm[1]], r[perm[2]], r[perm[3]],
                                                      r[perm[4]])) = overall
            /\ \E k \in 1..4 : RatingRank(r[k]) <= RatingRank(overall)
            /\ \E k \in 1..4 : RatingRank(r[k]) >= RatingRank(overall)
            /\ fn_result.df_rating = r[1]
            /\ fn_result.lt_rating = r[2]
            /\ fn_result.cfr_rating = r[3]
            /\ fn_result.mttr_rating = r[4]

C21_Witness ==
    /\ fn_pc = "done"
    /\ "overall_rating" \in DOMAIN fn_result
    /\ FourRatings = <<"low", "elite", "elite", "elite">>
    /\ fn_result.overall_rating = "high"

(***************************************************************************)
(* Properties of the fetch stage                                           *)
(***************************************************************************)
\* a source of the single-period run failed as a whole: the repository
\* listing of one of the GitHub tasks, or the incident fetch
PipelineSourceFailed ==
    /\ run.kind = "run_metrics_pipeline"
    /\ frame.fault # None
    /\ \/ "fetch_github_deployments" \in frame.fault.get_repos
       \/ "fetch_github_pull_requests" \in frame.fault.get_repos
       \/ env.incident_io /\ frame.fault.incidents

\* C22: when the deployment, the pull request or the incident source of
\* run_metrics_pipeline fails as a whole, the run ends raising that error
\* in the fetch stage: the database is as it was when the run began (no raw
\* event, no snapshot), no metrics were computed and no report returned.
C22_PipelineFailsWithItsSource ==
    PipelineSourceFailed =>
        /\ pc = "done"
        /\ outcome = [status |-> "raised", error |-> UpstreamError, stage |-> "mp_fetch"]
        /\ db = db0
        /\ frame.data = EmptyData
        /\ frame.metrics = None
        /\ frame.snapshot_id = 0

C22_Witness ==
    /\ PipelineSourceFailed
    /\ frame.fault.incidents
    /\ frame.fault.get_repos = {}
    /\ "get_deployments" \in frame.upstream
    /\ outcome.status = "raised"

\* a source of a backfill period failed as a whole: the repository
\* listing, or the incident fetch
BackfillSourceFailed ==
    /\ run.kind \in BackfillKinds
    /\ frame.fault # None
    /\ \/ "backfill_period" \in frame.fault.get_repos
       \/ env.incident_io /\ frame.fault.incidents

\* C23: when the repository listing or the incident fetch of
\* backfill_period fails, the period fails: the call raises, no metrics are
\* computed from the other sources, no snapshot is written.
C23_BackfillPeriodFailsWithItsSource ==
    BackfillSourceFailed =>
        /\ pc = "bp_raised"
        /\ frame.error = UpstreamError
        /\ frame.metrics = None
        /\ frame.result = None
        /\ session = NoSession

ClientDone(fn) == fn_pc = "done" /\ fn_args.fn = fn

\* C25: a failing status lookup of one deployment, or a failing commits
\* lookup of one pull request, changes that item alone: the call returns
\* the items it returns without the failure, the deployment with the
\* status pending, the pull request without a first commit time.
C25_EnrichmentFailureDegradesOneItem ==
    /\ (ClientDone("get_deployments") /\ fn_args.fault.pages = {}) =>
          LET clean == get_deployments(fn_args.pages, fn_args.period, NoFault).value
          IN  /\ fn_result.status = "returned"
              /\ Len(fn_result.value) = Len(clean)
              /\ \A k \in 1..Len(clean) :
                    fn_result.value[k] =
                        IF clean[k].id \in fn_args.fault.items
                        THEN [clean[k] EXCEPT !.status = "pending"]
                        ELSE clean[k]
    /\ (ClientDone("get_pull_requests") /\ fn_args.fault.pages = {}) =>
          LET clean == get_pull_requests(fn_args.pages, fn_args.period, NoFault).value
          IN  /\ fn_result.status = "returned"
              /\ Len(fn_result.value) = Len(clean)
              /\ \A k \in 1..Len(clean) :
                    fn_result.value[k] =
                        IF clean[k].number \in fn_args.fault.items
                        THEN [clean[k] EXCEPT !.first_commit_at = None]
                        ELSE clean[k]

\* the instant that places an item in a period: the creation of a
\* deployment or an incident, the merge of a pull request
DefiningTime(item) ==
    IF fn_args.fn = "get_pull_requests" THEN item.merged_at.t ELSE item.created_at.t

InPeriod(t, p) == timestamp(p.start_date) <= t /\ t <= timestamp(p.end_date)

C28_EarlyStopSkipsNothing ==
    (ClientDone("get_pull_requests") /\ fn_args.fault.pages = {}) =>
        /\ fn_result.status = "returned"
        /\ \A p \in 1..Len(fn_args.pages) :
              \A j \in 1..Len(fn_args.pages[p]) :
                 LET pr == fn_args.pages[p][j]
                 IN  (pr.merged_at # None /\ InPeriod(pr.merged_at.t, fn_args.period)) =>
                        \E k \in 1..Len(fn_result.value) :
                            fn_result.value[k].number = pr.number

\* the number of items of list that come from the repository repo
CountOf(list, repo) ==
    Cardinality({k \in 1..Len(list) :
                    IF "sha" \in DOMAIN list[k] THEN list[k].sha = "sha-" \o repo
                    ELSE list[k].title = "change in " \o repo})

\* the list holds, of every repository, all the items of its answer when
\* its fetch succeeded and none when it raised, and nothing else
UnionOfSucceeded(list, outcomes) ==
    /\ \A r \in 1..Len(Repos) :
          CountOf(list, Repos[r]) =
              IF outcomes[r].status = "raised" THEN 0 ELSE Len(outcomes[r].value)
    /\ \A r \in 1..Len(Repos) :
          outcomes[r].status = "returned" =>
             \A j \in 1..Len(outcomes[r].value) :
                \E k \in 1..Len(list) :
                   IF "sha" \in DOMAIN list[k]
                   THEN /\ list[k].id = outcomes[r].value[j].id
                        /\ list[k].sha = outcomes[r].value[j].sha
                        /\ list[k].created_at.t = outcomes[r].value[j].created_at.t
                   ELSE /\ list[k].number = outcomes[r].value[j].number
                        /\ list[k].title = outcomes[r].value[j].title
                        /\ list[k].merged_at.t = outcomes[r].value[j].merged_at.t
    /\ Len(list) = SeqSum([r \in 1..Len(Repos) |-> CountOf(list, Repos[r])])

\* C26: whichever repositories fail, fetch_github_deployments,
\* fetch_github_pull_requests and the loops of backfill_period return, and
\* what they return is the items of the repositories that did not fail.
C26_FailingRepositoriesSkipped ==
    (fn_pc = "done" /\ fn_args.fn \in {"fetch_github_deployments",
                                        "fetch_github_pull_requests", "backfill_period"}) =>
        /\ fn_result.status = "returned"
        /\ fn_args.fn = "fetch_github_deployments" =>
              UnionOfSucceeded(fn_result.value, DeploymentOutcomes(fn_args))
        /\ fn_args.fn = "fetch_github_pull_requests" =>
              UnionOfSucceeded(fn_result.value, PullRequestOutcomes(fn_args))
        /\ fn_args.fn = "backfill_period" =>
              /\ UnionOfSucceeded(fn_result.value.deployments, DeploymentOutcomes(fn_args))
              /\ UnionOfSucceeded(fn_result.value.pull_requests, PullRequestOutcomes(fn_args))

C26_Witness ==
    /\ fn_pc = "done"
    /\ fn_args.fn = "backfill_period"
    /\ DeploymentOutcomes(fn_args)[1].status = "raised"
    /\ DeploymentOutcomes(fn_args)[2].status = "returned"
    /\ Len(fn_result.value.deployments) = 2
    /\ Len(fn_result.value.pull_requests) = 3

(***************************************************************************)
(* Properties of the backfill endpoints                                    *)
(***************************************************************************)
\* C29: of concurrent start_backfill requests at most one starts a task
\* run: no second run is started while one started since the tracking was
\* last empty exists, and _current_run, when set, names that one run.
C29_AtMostOneTriggered ==
    /\ Cardinality(triggered) <= 1
    /\ _current_run # None => triggered = {_current_run.run_id}

\* C30: a status poll that asked Render about run A and resumes with a
\* terminal status of A after A was stopped and another run B started (B
\* is the one run started since the tracking was cleared) leaves
\* _current_run as it is, and its response does not carry the run_id of B.
C30_PollClearsOnlyItsRun ==
    [][\A r \in Requests :
          (/\ requests[r].pc = "get_task_run_returned"
           /\ requests'[r].pc = "done"
           /\ requests[r].local.status \in {"succeeded", "failed"}
           /\ _current_run # None
           /\ _current_run.run_id # requests[r].local.asked
           /\ triggered = {_current_run.run_id}) =>
              /\ _current_run' = _current_run
              /\ "run_id" \in DOMAIN requests'[r].response =>
                    requests'[r].response.run_id # _current_run.run_id]_vars

\* C31: a status poll that resumes from get_task_run after _current_run
\* was set to None (by stop_backfill or by another poll that saw a terminal
\* status) still answers with a status response: every finished
\* get_backfill_status carries the fields running, progress and error.
C31_PollSurvivesClearedRun ==
    \A r \in Requests :
        (requests[r].handler = "get_backfill_status" /\ requests[r].pc = "done") =>
            {"running", "progress", "error"} \subseteq DOMAIN requests[r].response

(***************************************************************************)
(* Properties of the stages of a period                                    *)
(***************************************************************************)
\* the step that persists the raw events: store_raw_data in the pipeline,
\* the three upserts in backfill_period
PersistRawStep ==
    \/ pc = "mp_store_raw" /\ pc' = "mp_calculate"
    \/ pc = "bp_store" /\ pc' = "bp_snapshot"

\* the step that computes the metrics
ComputeStep == frame.metrics = None /\ frame'.metrics # None

\* the step that persists the snapshot
PersistSnapshotStep == frame.snapshot_id = 0 /\ frame'.snapshot_id # 0

\* the step that hands the snapshot to reporting
ReportStep == pc = "mp_report" /\ pc' = "done" /\ outcome'.status = "returned"

\* C32: in a single-period run the stages follow one another as fetch,
\* compute, persist the raw events, persist the snapshot, report: the
\* metrics are computed from a finished fetch, the raw events are persisted
\* only when the metrics have been computed, the snapshot only when the raw
\* events have been persisted, and the report only when the snapshot has.
C32_StagesInOrder ==
    [][/\ ComputeStep => frame.upstream # {}
       /\ PersistRawStep => frame.metrics # None
       /\ PersistSnapshotStep => pc \notin {"mp_store_raw", "bp_store"}
       /\ ReportStep => frame.snapshot_id # 0]_vars

(***************************************************************************)
(* Properties of the gather of run_metrics_pipeline                        *)
(***************************************************************************)
\* the positions of run_metrics_pipeline after the gather
AfterJoin == {"mp_store_raw", "mp_calculate", "mp_store_snapshot", "mp_report"}

\* C33: whatever order the fetch tasks end in, run_metrics_pipeline is at
\* a store, calculation or report step only when every fetch task has
\* returned, and the data it works on (hence the metrics) are those of the
\* three sources, each in its own place, independent of that order.
C33_JoinBeforeCompute ==
    (run.kind = "run_metrics_pipeline" /\ pc \in AfterJoin) =>
        /\ \A t \in TaskNames : frame.tasks[t].status = "returned"
        /\ frame.data = DumpData(BackfillFetch(env, frame.fault, period))
        /\ frame.metrics # None =>
              frame.metrics = calculate_dora_metrics(
                                  ParseData(DumpData(BackfillFetch(env, frame.fault, period))),
                                  period, clock)

\* the tasks ended in the reverse of the order they were handed to gather
C33_Witness ==
    /\ run.kind = "run_metrics_pipeline"
    /\ pc = "mp_store_snapshot"
    /\ frame.finished = <<FetchTasks[3], FetchTasks[2], FetchTasks[1]>>
    /\ frame.data.deployments # <<>>
    /\ frame.data.incidents # <<>>

(***************************************************************************)
(* Properties of the delays                                                *)
(***************************************************************************)
\* the inter-period delays of a run over n periods
DelaysOf(n) == IF n > 0 THEN n - 1 ELSE 0

\* C34: a backfill over N periods sleeps once between the recording of
\* result i and the start of period i+1, after a failed period as after a
\* successful one, and not after the last: a period starts only when one
\* delay per recorded result has passed, and the run ends with all N
\* results recorded and max(N-1, 0) delays.
C34_DelayBetweenPeriods ==
    run.kind \in BackfillKinds =>
        /\ pc \in {"bp_clients", "bp_fetch", "bp_store", "bp_snapshot", "bp_commit"} =>
              /\ Len(results) = loop_i
              /\ run.delays = loop_i
        /\ pc = "done" =>
              /\ Len(results) = total
              /\ run.delays = DelaysOf(total)

\* the same for run_backfill_pipeline alone
C34_PipelineDelayBetweenPeriods ==
    run.kind = "run_backfill_pipeline" =>
        /\ pc \in {"bp_clients", "bp_fetch", "bp_store", "bp_snapshot", "bp_commit"} =>
              /\ Len(results) = loop_i
              /\ run.delays = loop_i
        /\ pc = "done" =>
              /\ Len(results) = total
              /\ run.delays = DelaysOf(total)

\* C35: in backfill_period a delay elapses between any two consecutive
\* per-repository fetch calls, also when the earlier of the two failed: in
\* what the two loops do, a fetch call is never directly followed by
\* another fetch call.
C35_DelayBetweenRepositoryCalls ==
    (fn_pc = "done" /\ fn_args.fn = "backfill_period") =>
        \A k \in 1..(Len(fn_result.value.events) - 1) :
            fn_result.value.events[k].op # "sleep" =>
                fn_result.value.events[k + 1].op = "sleep"

\* C36: the pull requests fetched from all repositories are stored as
\* distinct rows: after the upsert of what the loops of backfill_period
\* gathered into an empty table, the table holds one row per fetched pull
\* request, as many as the returned count, also when two repositories have
\* a pull request of the same number.
C36_PullRequestsStoredPerRepository ==
    (fn_pc = "stored" /\ fn_args.fn = "backfill_period") =>
        /\ fn_result.value.pr_count = Len(fn_result.value.pull_requests)
        /\ Len(session.tables.pull_requests) = Len(fn_result.value.pull_requests)

\* the same for the deployments, whose ids differ over the repositories
C36_DeploymentsStoredPerRepository ==
    (fn_pc = "stored" /\ fn_args.fn = "backfill_period") =>
        /\ fn_result.value.dep_count = Len(fn_result.value.deployments)
        /\ Len(session.tables.deployments) = Len(fn_result.value.deployments)

(***************************************************************************)
(* Properties of the calculator on the generated periods                   *)
(***************************************************************************)
\* C37: for a weekly period of generate_periods or _get_period (Monday
\* 00:00:00 to Sunday 23:59:59) the deployment frequency is taken over 7
\* days: deployments_per_week is the number of successful deployments, and
\* 7 successful deployments give 1.0 per day, rated elite.
C37_WeeklyFrequencyOverSevenDays ==
    (CalcDone /\ fn_args.period \in WeeklyPeriods) =>
        \A i \in 1..Len(fn_result) :
            LET df == fn_result[i].deployment_frequency
            IN  /\ df.deployments_per_week.n
                      = df.total_deployments * df.deployments_per_week.d
                /\ df.total_deployments = 7 =>
                      /\ df.deployments_per_day.n = df.deployments_per_day.d
                      /\ df.rating = "elite"

\* the change-related incidents of the call that carry a resolution time
ResolvedChangeIncidents ==
    {k \in 1..Len(fn_args.data.incidents) :
        /\ fn_args.data.incidents[k].is_change_related
        /\ fn_args.data.incidents[k].time_to_resolve_hours # None}

\* C38: the incidents count of the MTTR block is the number of incidents
\* whose resolution time entered the average and the median, also for a
\* list that mixes resolved and unresolved incidents.
C38_MttrCountsWhatItAverages ==
    CalcDone =>
        \A i \in 1..Len(fn_result) :
            fn_result[i].mttr.incidents = Cardinality(ResolvedChangeIncidents)

\* C39: the change-failure-rate percentage lies between 0 and 100, for
\* every number of successful deployments and of change-related incidents.
C39_FailureRateIsAPercentage ==
    CalcDone =>
        \A i \in 1..Len(fn_result) :
            LET percentage == fn_result[i].change_failure_rate.percentage
            IN  /\ percentage.d > 0
                /\ percentage.n >= 0
                /\ percentage.n <= 100 * percentage.d


\* the instant a raw deployment of the feed was created at
CreatedAt(dep) == timestamp(fromisoformat(dep.created_at))

\* the feed lists its deployments newest first, over the pages in order
NewestFirst(pages) ==
    \A p \in 1..Len(pages), q \in 1..Len(pages) :
       \A j \in 1..Len(pages[p]), k \in 1..Len(pages[q]) :
          ItemIndex(p, j) < ItemIndex(q, k) =>
             CreatedAt(pages[p][j]) >= CreatedAt(pages[q][k])

\* page p holds a deployment created before the start of the period
HoldsOlder(page, of_period) ==
    \E j \in 1..Len(page) : CreatedAt(page[j]) < timestamp(of_period.start_date)

\* no page after one that holds a deployment from before the period is
\* requested
NoPageAfterOlder ==
    \A p \in 1..Len(fn_args.pages) :
       HoldsOlder(fn_args.pages[p], fn_args.period) =>
          \A k \in 1..Len(fn_result.requested) : fn_result.requested[k] <= p

\* every deployment of the feed created within the period is returned
InPeriodDeploymentsReturned ==
    \A p \in 1..Len(fn_args.pages) :
       \A j \in 1..Len(fn_args.pages[p]) :
          InPeriod(CreatedAt(fn_args.pages[p][j]), fn_args.period) =>
             \E k \in 1..Len(fn_result.value) :
                fn_result.value[k].id = fn_args.pages[p][j].id

\* C40: on a newest-first feed, get_deployments requests no page of the
\* repository after the one on which it saw a deployment created before
\* period.start, and it still returns every deployment created within the
\* period
C40_StopsAfterOlderDeployment ==
    (ClientDone("get_deployments") /\ fn_result.status = "returned"
        /\ NewestFirst(fn_args.pages)) =>
        /\ NoPageAfterOlder
        /\ InPeriodDeploymentsReturned

\* the second half alone: the deployments within the period are all returned
C40_NewestFirstLosesNothing ==
    (ClientDone("get_deployments") /\ fn_result.status = "returned"
        /\ NewestFirst(fn_args.pages)) =>
        InPeriodDeploymentsReturned

\* a newest-first feed of two pages whose first page ends with a deployment
\* from before the period
C40_OlderOnFirstPage ==
    /\ ClientDone("get_deployments")
    /\ fn_result.status = "returned"
    /\ NewestFirst(fn_args.pages)
    /\ Len(fn_args.pages) = 2
    /\ HoldsOlder(fn_args.pages[1], fn_args.period)

====
